---- MODULE Spec2Model ----
(***************************************************************************)
(* Room matching and settlement engine of the casino bot.                  *)
(*                                                                         *)
(* The specifications share the state:                                     *)
(*   SpecRoom one room object driven call by call (MultiplayerGame,        *)
(*            DiceGame, CoinflipGame);                                     *)
(*   Spec     the aiogram handlers of main.py as coroutines that           *)
(*            interleave at their await points;                            *)
(* the others, each introduced where it is defined, drive one part of the  *)
(* bot: the registry, the rematch, the stake dialog, the files, the        *)
(* cashouts and the invoices.                                              *)
(*                                                                         *)
(* Python's None is NoneId (0) for user ids and dice results and the       *)
(* string "None" for coin sides.  Money is in whole dollars; the stakes    *)
(* of the model are multiples of 10 so the 5% fee is exact.  A room id     *)
(* "ROOM<n>" is the number n.                                              *)
(***************************************************************************)
EXTENDS Integers, Sequences, FiniteSets, Bags, TLC

VARIABLES
    active_rooms,     \* RoomManager.active_rooms: the ids that are keys of the dict
    room_counter,     \* RoomManager.room_counter
    rooms,            \* the room objects, by id: those the registry or a coroutine holds
    balance,          \* users.json: balance of every user
    rematch_requests, \* main.rematch_requests: pair_key -> request
    rematch_buttons,  \* callback data of the rematch buttons sent with a result
    tasks,            \* bag of handler coroutines in flight
    ledger,           \* history: per room, the ledger calls made for it, in order
    ret,              \* SpecRoom: the last call and what it returned
    rooms_file,       \* active_rooms.json: what save_rooms wrote, by room id
    cashouts,         \* cashout.json: cashout_id -> request
    active_invoices,  \* main.active_invoices: invoice_id -> the dict stored for it
    crypto_paid,      \* the invoices that the payment service reports as paid
    journal           \* history: bag of the ledger calls made outside the rooms

\* the state outside the rooms; the room specifications leave it alone
sideVars == <<rooms_file, cashouts, active_invoices, crypto_paid, journal>>

vars == <<active_rooms, room_counter, rooms, balance, rematch_requests,
          rematch_buttons, tasks, ledger, ret, sideVars>>

-----------------------------------------------------------------------------
(* Bounds and configuration *)

MaxRooms == 1
MaxRematches == 1
MaxTasks == 2
MaxRoll == 2
NumUsers == 3
NumCreators == 1

StartBalance == 20
MIN_BET == 1
MAX_BET == 1000
HOUSE_FEE == 5
FIRST_COUNTER == 1000

Users == 1..NumUsers
\* every user starts alike, so the users who open the first room are taken
\* from the low ids; anyone may join, choose, cancel or ask for a rematch
Creators == 1..NumCreators
NoneId == 0
Bets == {10, 20}
\* also a stake below the minimum, one in range that nobody can pay, and one
\* above the maximum
BetInputs == Bets \cup {0, StartBalance + 10, 2000}
GameTypes == {"dice", "coinflip"}
GameTypeInputs == GameTypes \cup {"poker"}
Sides == {"heads", "tails"}
ChoiceInputs == Sides \cup {"Heads", "edge", ""}
HandlerChoices == Sides \cup {"edge"}
RoomIds == (FIRST_COUNTER + 1)..(FIRST_COUNTER + MaxRooms + MaxRematches)
DIE_FACES == 6
Die == 1..DIE_FACES
HandlerDie == 1..MaxRoll

-----------------------------------------------------------------------------
(* multiplayer_games.py *)

NoResult(game_type) == IF game_type = "dice" THEN 0 ELSE "None"

MultiplayerGame(room_id, creator_id, bet, game_type) ==
    [room_id |-> room_id, creator_id |-> creator_id, opponent_id |-> NoneId,
     bet |-> bet, game_type |-> game_type, status |-> "waiting",
     creator_result |-> NoResult(game_type),
     opponent_result |-> NoResult(game_type),
     winner_id |-> NoneId, creator_choice |-> "None"]

\* MultiplayerGame.join: <<ok, room>>
JoinNoStatusCheck(room, opponent_id) ==
    [ok |-> TRUE,
     room |-> [room EXCEPT !.opponent_id = opponent_id, !.status = "playing"]]

Join(room, opponent_id) ==
    IF room.status # "waiting"
    THEN [ok |-> FALSE, room |-> room]
    ELSE [ok |-> TRUE,
          room |-> [room EXCEPT !.opponent_id = opponent_id, !.status = "playing"]]

\* DiceGame.play with the two draws of random.randint(1, 6)
DicePlayTieToCreator(room, c, o) ==
    IF room.status # "playing"
    THEN [room |-> room, result |-> [error |-> "Game is not ready"]]
    ELSE LET w == IF c >= o THEN room.creator_id ELSE room.opponent_id
         IN [room |-> [room EXCEPT !.creator_result = c, !.opponent_result = o,
                                   !.winner_id = w, !.status = "finished"],
             result |-> [creator_result |-> c, opponent_result |-> o,
                         winner_id |-> w, is_draw |-> (w = NoneId)]]

DicePlayNoStatusCheck(room, c, o) ==
    LET w == IF c > o THEN room.creator_id
             ELSE IF o > c THEN room.opponent_id ELSE NoneId
    IN [room |-> [room EXCEPT !.creator_result = c, !.opponent_result = o,
                              !.winner_id = w, !.status = "finished"],
        result |-> [creator_result |-> c, opponent_result |-> o,
                    winner_id |-> w, is_draw |-> (w = NoneId)]]

DicePlay(room, c, o) ==
    IF room.status # "playing"
    THEN [room |-> room, result |-> [error |-> "Game is not ready"]]
    ELSE LET w == IF c > o THEN room.creator_id
                  ELSE IF o > c THEN room.opponent_id ELSE NoneId
         IN [room |-> [room EXCEPT !.creator_result = c, !.opponent_result = o,
                                   !.winner_id = w, !.status = "finished"],
             result |-> [creator_result |-> c, opponent_result |-> o,
                         winner_id |-> w, is_draw |-> (w = NoneId)]]

\* str.lower on the choice strings of the model
Lower(s) == IF s = "Heads" THEN "heads" ELSE s

\* CoinflipGame.set_creator_choice
SetCreatorChoice(room, choice) == [room EXCEPT !.creator_choice = Lower(choice)]

\* CoinflipGame.get_opponent_choice
GetOpponentChoiceSame(room) == room.creator_choice

GetOpponentChoice(room) ==
    IF room.creator_choice = "heads" THEN "tails" ELSE "heads"

\* Python truthiness of creator_choice: None and "" are false
Falsy(choice) == choice = "None" \/ choice = ""

\* CoinflipGame.play with the draw of random.choice(["heads", "tails"])
CoinflipPlayNoChoiceCheck(room, flip) ==
    IF room.status # "playing"
    THEN [room |-> room, result |-> [error |-> "Game is not ready"]]
    ELSE LET opponent_choice == GetOpponentChoice(room)
              w == IF room.creator_choice = flip THEN room.creator_id
                   ELSE IF opponent_choice = flip THEN room.opponent_id
                   ELSE NoneId
         IN [room |-> [room EXCEPT !.creator_result = flip, !.opponent_result = flip,
                                   !.winner_id = w, !.status = "finished"],
             result |-> [result |-> flip, creator_choice |-> room.creator_choice,
                         opponent_choice |-> opponent_choice,
                         winner_id |-> w, is_draw |-> (w = NoneId)]]

CoinflipPlay(room, flip) ==
    IF room.status # "playing"
    THEN [room |-> room, result |-> [error |-> "Game is not ready"]]
    ELSE IF Falsy(room.creator_choice)
    THEN [room |-> room, result |-> [error |-> "Creator must make a choice"]]
    ELSE LET opponent_choice == GetOpponentChoice(room)
              w == IF room.creator_choice = flip THEN room.creator_id
                   ELSE IF opponent_choice = flip THEN room.opponent_id
                   ELSE NoneId
         IN [room |-> [room EXCEPT !.creator_result = flip, !.opponent_result = flip,
                                   !.winner_id = w, !.status = "finished"],
             result |-> [result |-> flip, creator_choice |-> room.creator_choice,
                         opponent_choice |-> opponent_choice,
                         winner_id |-> w, is_draw |-> (w = NoneId)]]

-----------------------------------------------------------------------------
(* room_manager.py: the registry operations as functions of the registry   *)
(* state reg = [active, counter, heap]                                     *)

Registry == [active |-> active_rooms, counter |-> room_counter, heap |-> rooms]

\* RoomManager.generate_room_id
GenerateRoomIdReuse(reg) ==
    [reg EXCEPT !.counter = FIRST_COUNTER + Cardinality(reg.active) + 1]

GenerateRoomId(reg) == [reg EXCEPT !.counter = reg.counter + 1]

\* RoomManager.create_room: [reg, raised, room_id]
CreateRoom(reg, creator_id, game_type, bet) ==
    LET g == GenerateRoomId(reg)
        room_id == g.counter
    IN IF game_type \in GameTypes
       THEN [reg |-> [g EXCEPT !.active = g.active \cup {room_id},
                               !.heap = [r \in DOMAIN g.heap \cup {room_id} |->
                                   IF r = room_id
                                   THEN MultiplayerGame(room_id, creator_id, bet, game_type)
                                   ELSE g.heap[r]]],
             raised |-> FALSE, room_id |-> room_id]
       ELSE [reg |-> g, raised |-> TRUE, room_id |-> NoneId]

\* RoomManager.get_room: the id when present, NoneId when absent
GetRoom(reg, room_id) == IF room_id \in reg.active THEN room_id ELSE NoneId

\* RoomManager.join_room: [reg, ok]
JoinRoomNoSelfCheck(reg, room_id, opponent_id) ==
    IF GetRoom(reg, room_id) = NoneId
    THEN [reg |-> reg, ok |-> FALSE]
    ELSE LET j == Join(reg.heap[room_id], opponent_id)
         IN [reg |-> [reg EXCEPT !.heap[room_id] = j.room], ok |-> j.ok]

JoinRoom(reg, room_id, opponent_id) ==
    IF GetRoom(reg, room_id) = NoneId
    THEN [reg |-> reg, ok |-> FALSE]
    ELSE IF reg.heap[room_id].creator_id = opponent_id
    THEN [reg |-> reg, ok |-> FALSE]
    ELSE LET j == Join(reg.heap[room_id], opponent_id)
         IN [reg |-> [reg EXCEPT !.heap[room_id] = j.room], ok |-> j.ok]

\* the ids of active_rooms from room_id on, in the order of the dict: a room
\* is inserted once, at its creation, so that order is the order of the ids
RECURSIVE RoomsFrom(_, _)
RoomsFrom(reg, room_id) ==
    IF room_id > reg.counter THEN <<>>
    ELSE (IF room_id \in reg.active THEN <<room_id>> ELSE <<>>)
            \o RoomsFrom(reg, room_id + 1)

\* RoomManager.get_waiting_rooms: the list of the rooms found
GetWaitingRoomsAnyStatus(reg, game_type) ==
    LET Kept(r) == Falsy(game_type) \/ reg.heap[r].game_type = game_type
    IN SelectSeq(RoomsFrom(reg, FIRST_COUNTER + 1), Kept)

GetWaitingRooms(reg, game_type) ==
    LET Waiting(r) == reg.heap[r].status = "waiting"
        Kept(r) == Falsy(game_type) \/ reg.heap[r].game_type = game_type
    IN SelectSeq(SelectSeq(RoomsFrom(reg, FIRST_COUNTER + 1), Waiting), Kept)

DeleteRoomAnswersTrue(reg, room_id) ==
    [reg |-> [reg EXCEPT !.active = reg.active \ {room_id}], ok |-> TRUE]

\* RoomManager.delete_room: [reg, ok]
DeleteRoom(reg, room_id) ==
    IF room_id \in reg.active
    THEN [reg |-> [reg EXCEPT !.active = reg.active \ {room_id}], ok |-> TRUE]
    ELSE [reg |-> reg, ok |-> FALSE]

SetRegistry(reg) ==
    /\ active_rooms' = reg.active
    /\ room_counter' = reg.counter
    /\ rooms' = reg.heap

-----------------------------------------------------------------------------
(* SpecRoom: one room object, constructed by the registry's first          *)
(* create_room, and one action per method called on it                     *)

TheRoom == FIRST_COUNTER + 1

NoRet == [op |-> "init", user |-> NoneId, choice |-> "None", ok |-> FALSE,
          result |-> [none |-> TRUE]]

otherVars == <<active_rooms, room_counter, balance, rematch_requests,
               rematch_buttons, tasks, ledger>>

InitSide ==
    /\ rooms_file = <<>>
    /\ cashouts = <<>>
    /\ active_invoices = <<>>
    /\ crypto_paid = {}
    /\ journal = EmptyBag

InitCommon ==
    /\ InitSide
    /\ balance = [u \in Users |-> StartBalance]
    /\ rematch_requests = [k \in {} |-> NoneId]
    /\ rematch_buttons = {}
    /\ tasks = EmptyBag
    /\ ledger = [r \in RoomIds |-> <<>>]
    /\ ret = NoRet

InitRoom ==
    /\ \E u \in Users, g \in GameTypes, b \in Bets :
          LET c == CreateRoom([active |-> {}, counter |-> FIRST_COUNTER, heap |-> <<>>],
                              u, g, b)
          IN /\ active_rooms = c.reg.active
             /\ room_counter = c.reg.counter
             /\ rooms = c.reg.heap
    /\ InitCommon

RoomJoin(opponent_id) ==
    /\ LET j == Join(rooms[TheRoom], opponent_id)
       IN /\ rooms' = [rooms EXCEPT ![TheRoom] = j.room]
          /\ ret' = [NoRet EXCEPT !.op = "join", !.user = opponent_id, !.ok = j.ok]
    /\ UNCHANGED otherVars
    /\ UNCHANGED sideVars

RoomSetCreatorChoice(choice) ==
    /\ rooms[TheRoom].game_type = "coinflip"
    /\ rooms' = [rooms EXCEPT ![TheRoom] = SetCreatorChoice(rooms[TheRoom], choice)]
    /\ ret' = [NoRet EXCEPT !.op = "set_creator_choice", !.choice = choice, !.ok = TRUE]
    /\ UNCHANGED otherVars
    /\ UNCHANGED sideVars

RoomDicePlay(c, o) ==
    /\ rooms[TheRoom].game_type = "dice"
    /\ LET p == DicePlay(rooms[TheRoom], c, o)
       IN /\ rooms' = [rooms EXCEPT ![TheRoom] = p.room]
          /\ ret' = [NoRet EXCEPT !.op = "play", !.result = p.result,
                                  !.ok = ("error" \notin DOMAIN p.result)]
    /\ UNCHANGED otherVars
    /\ UNCHANGED sideVars

RoomCoinflipPlay(flip) ==
    /\ rooms[TheRoom].game_type = "coinflip"
    /\ LET p == CoinflipPlay(rooms[TheRoom], flip)
       IN /\ rooms' = [rooms EXCEPT ![TheRoom] = p.room]
          /\ ret' = [NoRet EXCEPT !.op = "play", !.result = p.result,
                                  !.ok = ("error" \notin DOMAIN p.result)]
    /\ UNCHANGED otherVars
    /\ UNCHANGED sideVars

NextRoom ==
    \/ \E u \in Users : RoomJoin(u)
    \/ \E ch \in ChoiceInputs : RoomSetCreatorChoice(ch)
    \/ \E c \in Die, o \in Die : RoomDicePlay(c, o)
    \/ \E f \in Sides : RoomCoinflipPlay(f)

SpecRoom == InitRoom /\ [][NextRoom]_vars

-----------------------------------------------------------------------------
(* database.py: the ledger *)

\* Amounts are Python floats.  float(message.text) also accepts the text
\* "nan"; NaN is written here as a number that no sum of the model reaches.
\* Every comparison with NaN is false, every sum with NaN is NaN.
NaN == 0 - 1000000
FloatLt(a, b) == a # NaN /\ b # NaN /\ a < b
FloatNeg(a) == IF a = NaN THEN NaN ELSE 0 - a
FloatAdd(a, b) == IF a = NaN \/ b = NaN THEN NaN ELSE a + b

GetBalanceOfNewcomer(bal, user_id) == MAX_BET

\* Database.get_balance
GetBalance(bal, user_id) == IF user_id \in DOMAIN bal THEN bal[user_id] ELSE 0

\* Database.update_balance
UpdateBalance(bal, user_id, amount) ==
    IF user_id \in DOMAIN bal THEN [bal EXCEPT ![user_id] = FloatAdd(@, amount)]
    ELSE bal

\* a ledger call made for a room, appended to the room's history
Entry(kind, user_id, amount) == [kind |-> kind, user |-> user_id, amount |-> amount]

Record(room_id, entries) ==
    ledger' = [ledger EXCEPT ![room_id] = @ \o entries]

-----------------------------------------------------------------------------
(* main.py: handlers.  A task is one coroutine; pc names the await it is   *)
(* suspended at; "end" is the last callback.answer or the raised error.    *)

NewTask(h, user_id, room_id) ==
    [h |-> h, pc |-> "start", user |-> user_id, room_id |-> room_id,
     game_type |-> "", bet |-> 0, result |-> [none |-> TRUE], msg |-> "",
     p1 |-> NoneId, p2 |-> NoneId, req |-> NoneId]

At(t, pc) == [t EXCEPT !.pc = pc]
\* the last await of a handler; its frame still holds the room it fetched
End(t, msg) ==
    [NewTask(t.h, t.user, t.room_id) EXCEPT !.pc = "end", !.msg = msg]

\* a handler that answers at once, before its first await: it fetched no room
\* it uses later and made no ledger call
Refuse(t, msg) ==
    [NewTask(t.h, NoneId, NoneId) EXCEPT !.pc = "end", !.msg = msg]

Spawn(t) == tasks' = tasks (+) SetToBag({t})
Replace(t, t2) == tasks' = (tasks (-) SetToBag({t})) (+) SetToBag({t2})

\* The last step of a handler touches nothing another coroutine reads, so it
\* commutes with every other step: it is taken before anything else happens.
NoneEnded == \A t \in BagToSet(tasks) : t.pc # "end"

CanSpawn == NoneEnded /\ BagCardinality(tasks) < MaxTasks

\* coroutines that may still call create_room
PendingCreates ==
    LET S == {t \in BagToSet(tasks) :
                t.pc \in {"create_bal", "rematch_bal", "rematch_accept"}}
    IN BagCardinality([t \in S |-> tasks[t]])

CanCreate == room_counter + PendingCreates < FIRST_COUNTER + MaxRooms
CanRematch == room_counter + PendingCreates < FIRST_COUNTER + MaxRooms + MaxRematches

\* show_dice_result / show_coinflip_result: the prize after the house fee
FinalPrizeOnProfit(bet) ==
    LET full_prize == bet * 2
        fee_amount == (bet * HOUSE_FEE) \div 100
    IN full_prize - fee_amount

FinalPrize(bet) ==
    LET full_prize == bet * 2
        fee_amount == (full_prize * HOUSE_FEE) \div 100
    IN full_prize - fee_amount

\* start_multiplayer_game: dice goes on to the animation and play();
\* coinflip only sends the side buttons to the creator
StartMultiplayerGame(t, game_type) ==
    IF game_type = "dice" THEN At(t, "dice_play")
    ELSE IF game_type = "coinflip" THEN End(t, "choose_side")
    ELSE End(t, "started")

(* create_room_with_bet *)

\* ban_manager: bans.json as an admin left it; the highest user id is banned
Banned == {NumUsers}

\* BanManager.is_banned
IsBanned(user_id) == user_id \in Banned

\* create_room_start: a banned user is turned away and is not asked for a
\* game type or a stake
CreateRoomStart(user_id) == ~IsBanned(user_id)

CreateStart(user_id, game_type, bet) ==
    /\ CanSpawn
    /\ CanCreate
    /\ LET t == [NewTask("create", user_id, NoneId) EXCEPT !.game_type = game_type,
                                                           !.bet = bet]
       IN Spawn(IF FloatLt(bet, MIN_BET) \/ FloatLt(MAX_BET, bet)
                THEN Refuse(t, "bad_bet")
                ELSE At(t, "create_bal"))
    /\ UNCHANGED <<active_rooms, room_counter, rooms, balance, rematch_requests,
                   rematch_buttons, ledger, ret>>
    /\ UNCHANGED sideVars

CreateBal(t) ==
    /\ NoneEnded
    /\ t.pc = "create_bal"
    /\ IF FloatLt(GetBalance(balance, t.user), t.bet)
       THEN /\ Replace(t, End(t, "no_funds"))
            /\ UNCHANGED <<active_rooms, room_counter, rooms>>
       ELSE LET c == CreateRoom(Registry, t.user, t.game_type, t.bet)
            IN /\ SetRegistry(c.reg)
               /\ Replace(t, IF c.raised THEN End(t, "ValueError")
                             ELSE [At(t, "create_debit") EXCEPT !.room_id = c.room_id])
    /\ UNCHANGED <<balance, rematch_requests, rematch_buttons, ledger, ret>>
    /\ UNCHANGED sideVars

CreateDebit(t) ==
    /\ NoneEnded
    /\ t.pc = "create_debit"
    /\ balance' = UpdateBalance(balance, t.user, FloatNeg(t.bet))
    /\ Record(t.room_id, <<Entry("stake", t.user, FloatNeg(t.bet))>>)
    /\ Replace(t, End(t, "created"))
    /\ UNCHANGED <<active_rooms, room_counter, rooms, rematch_requests,
                   rematch_buttons, ret>>
    /\ UNCHANGED sideVars

(* cancel_room *)

CancelStart(room_id) ==
    /\ CanSpawn
    /\ LET t == NewTask("cancel", NoneId, room_id)
       IN Spawn(IF GetRoom(Registry, room_id) # NoneId
                   /\ rooms[room_id].status = "waiting"
                THEN At(t, "cancel_credit")
                ELSE Refuse(t, "not_cancelled"))
    /\ UNCHANGED <<active_rooms, room_counter, rooms, balance, rematch_requests,
                   rematch_buttons, ledger, ret>>
    /\ UNCHANGED sideVars

CancelCredit(t) ==
    /\ NoneEnded
    /\ t.pc = "cancel_credit"
    /\ LET room == rooms[t.room_id]
       IN /\ balance' = UpdateBalance(balance, room.creator_id, room.bet)
          /\ Record(t.room_id, <<Entry("cancel_refund", room.creator_id, room.bet)>>)
    /\ SetRegistry(DeleteRoom(Registry, t.room_id).reg)
    /\ Replace(t, End(t, "cancelled"))
    /\ UNCHANGED <<rematch_requests, rematch_buttons, ret>>
    /\ UNCHANGED sideVars

(* check_room *)

CheckStart(room_id) ==
    /\ CanSpawn
    /\ LET t == NewTask("check", NoneId, room_id)
       IN Spawn(IF GetRoom(Registry, room_id) = NoneId THEN Refuse(t, "not_found")
                ELSE IF rooms[room_id].status = "playing"
                THEN StartMultiplayerGame(t, rooms[room_id].game_type)
                ELSE Refuse(t, "nobody_joined"))
    /\ UNCHANGED <<active_rooms, room_counter, rooms, balance, rematch_requests,
                   rematch_buttons, ledger, ret>>
    /\ UNCHANGED sideVars

(* join_room *)

JoinStart(user_id, room_id) ==
    /\ CanSpawn
    /\ LET t == NewTask("join", user_id, room_id)
       IN Spawn(IF GetRoom(Registry, room_id) = NoneId THEN Refuse(t, "unavailable")
                ELSE IF rooms[room_id].status # "waiting" THEN Refuse(t, "taken")
                ELSE At(t, "join_bal"))
    /\ UNCHANGED <<active_rooms, room_counter, rooms, balance, rematch_requests,
                   rematch_buttons, ledger, ret>>
    /\ UNCHANGED sideVars

JoinBal(t) ==
    /\ NoneEnded
    /\ t.pc = "join_bal"
    /\ IF GetBalance(balance, t.user) < rooms[t.room_id].bet
       THEN /\ Replace(t, End(t, "no_funds"))
            /\ UNCHANGED <<active_rooms, room_counter, rooms>>
       ELSE LET j == JoinRoom(Registry, t.room_id, t.user)
            IN /\ SetRegistry(j.reg)
               /\ Replace(t, IF j.ok THEN At(t, "join_debit")
                             ELSE End(t, "join_failed"))
    /\ UNCHANGED <<balance, rematch_requests, rematch_buttons, ledger, ret>>
    /\ UNCHANGED sideVars

JoinDebit(t) ==
    /\ NoneEnded
    /\ t.pc = "join_debit"
    /\ LET room == rooms[t.room_id]
       IN /\ balance' = UpdateBalance(balance, t.user, -room.bet)
          /\ Record(t.room_id, <<Entry("join", t.user, -room.bet)>>)
          /\ Replace(t, StartMultiplayerGame(t, room.game_type))
    /\ UNCHANGED <<active_rooms, room_counter, rooms, rematch_requests,
                   rematch_buttons, ret>>
    /\ UNCHANGED sideVars

(* animate_dice_game, show_dice_result *)

DicePlayStep(t, c, o) ==
    /\ NoneEnded
    /\ t.pc = "dice_play"
    /\ LET p == DicePlay(rooms[t.room_id], c, o)
       IN /\ rooms' = [rooms EXCEPT ![t.room_id] = p.room]
          /\ Replace(t, [At(t, "dice_result") EXCEPT !.result = p.result])
    /\ UNCHANGED <<active_rooms, room_counter, balance, rematch_requests,
                   rematch_buttons, ledger, ret>>
    /\ UNCHANGED sideVars

\* the first ledger call of a result: the creator's refund of a draw, or
\* the winner's prize
FirstCredit(t) ==
    LET room == rooms[t.room_id]
    IN IF t.result.is_draw
       THEN /\ balance' = UpdateBalance(balance, room.creator_id, room.bet)
            /\ Record(t.room_id, <<Entry("draw_refund", room.creator_id, room.bet)>>)
            /\ Replace(t, At(t, "draw_opponent"))
       ELSE /\ balance' = UpdateBalance(balance, t.result.winner_id, FinalPrize(room.bet))
            /\ Record(t.room_id, <<Entry("win", t.result.winner_id, FinalPrize(room.bet))>>)
            /\ Replace(t, At(t, "history"))

ShowDiceResult(t) ==
    /\ NoneEnded
    /\ t.pc = "dice_result"
    /\ IF "creator_result" \notin DOMAIN t.result
       THEN /\ Replace(t, End(t, "KeyError"))
            /\ UNCHANGED <<balance, ledger>>
       ELSE FirstCredit(t)
    /\ UNCHANGED <<active_rooms, room_counter, rooms, rematch_requests,
                   rematch_buttons, ret>>
    /\ UNCHANGED sideVars

(* coinflip_choice, show_coinflip_result *)

CoinChoiceStartAnyone(user_id, room_id, choice) ==
    /\ CanSpawn
    /\ LET t == NewTask("coin_choice", user_id, room_id)
       IN IF GetRoom(Registry, room_id) = NoneId
          THEN Spawn(Refuse(t, "game_over")) /\ UNCHANGED rooms
          ELSE IF rooms[room_id].game_type # "coinflip"
          THEN Spawn(Refuse(t, "AttributeError")) /\ UNCHANGED rooms
          ELSE /\ rooms' = [rooms EXCEPT ![room_id] = SetCreatorChoice(@, choice)]
               /\ Spawn(IF choice \in Sides THEN At(t, "coin_play")
                        ELSE End(t, "KeyError"))
    /\ UNCHANGED <<active_rooms, room_counter, balance, rematch_requests,
                   rematch_buttons, ledger, ret>>
    /\ UNCHANGED sideVars

CoinChoiceStart(user_id, room_id, choice) ==
    /\ CanSpawn
    /\ LET t == NewTask("coin_choice", user_id, room_id)
       IN IF GetRoom(Registry, room_id) = NoneId
          THEN Spawn(Refuse(t, "game_over")) /\ UNCHANGED rooms
          ELSE IF user_id # rooms[room_id].creator_id
          THEN Spawn(Refuse(t, "creator_only")) /\ UNCHANGED rooms
          ELSE IF rooms[room_id].game_type # "coinflip"
          THEN Spawn(Refuse(t, "AttributeError")) /\ UNCHANGED rooms
          ELSE /\ rooms' = [rooms EXCEPT ![room_id] = SetCreatorChoice(@, choice)]
               /\ Spawn(IF choice \in Sides THEN At(t, "coin_play")
                        ELSE End(t, "KeyError"))
    /\ UNCHANGED <<active_rooms, room_counter, balance, rematch_requests,
                   rematch_buttons, ledger, ret>>
    /\ UNCHANGED sideVars

CoinPlayStep(t, flip) ==
    /\ NoneEnded
    /\ t.pc = "coin_play"
    /\ LET p == CoinflipPlay(rooms[t.room_id], flip)
       IN /\ rooms' = [rooms EXCEPT ![t.room_id] = p.room]
          /\ Replace(t, [At(t, "coin_result") EXCEPT !.result = p.result])
    /\ UNCHANGED <<active_rooms, room_counter, balance, rematch_requests,
                   rematch_buttons, ledger, ret>>
    /\ UNCHANGED sideVars

ShowCoinflipResult(t) ==
    /\ NoneEnded
    /\ t.pc = "coin_result"
    /\ IF "result" \notin DOMAIN t.result
       THEN /\ Replace(t, End(t, "KeyError"))
            /\ UNCHANGED <<balance, ledger>>
       ELSE IF t.result.creator_choice \notin Sides
       THEN /\ Replace(t, End(t, "KeyError"))
            /\ UNCHANGED <<balance, ledger>>
       ELSE FirstCredit(t)
    /\ UNCHANGED <<active_rooms, room_counter, rooms, rematch_requests,
                   rematch_buttons, ret>>
    /\ UNCHANGED sideVars

(* the rest of show_dice_result / show_coinflip_result *)

DrawOpponent(t) ==
    /\ NoneEnded
    /\ t.pc = "draw_opponent"
    /\ LET room == rooms[t.room_id]
       IN /\ balance' = UpdateBalance(balance, room.opponent_id, room.bet)
          /\ Record(t.room_id, <<Entry("draw_refund", room.opponent_id, room.bet)>>)
    /\ Replace(t, At(t, "history"))
    /\ UNCHANGED <<active_rooms, room_counter, rooms, rematch_requests,
                   rematch_buttons, ret>>
    /\ UNCHANGED sideVars

HistorySkipped(t) ==
    /\ NoneEnded
    /\ t.pc = "history"
    /\ Replace(t, At(t, "notify"))
    /\ UNCHANGED <<active_rooms, room_counter, rooms, balance, rematch_requests,
                   rematch_buttons, ledger, ret>>
    /\ UNCHANGED sideVars

History(t) ==
    /\ NoneEnded
    /\ t.pc = "history"
    /\ LET room == rooms[t.room_id]
           winner_id == t.result.winner_id
           loser_id == IF winner_id = room.creator_id THEN room.opponent_id
                       ELSE room.creator_id
       IN Record(t.room_id,
                 IF t.result.is_draw
                 THEN <<Entry("history", room.creator_id, room.bet),
                        Entry("history", room.opponent_id, room.bet)>>
                 ELSE <<Entry("history", winner_id, FinalPrize(room.bet)),
                        Entry("history", loser_id, 0)>>)
    /\ Replace(t, At(t, "notify"))
    /\ UNCHANGED <<active_rooms, room_counter, rooms, balance, rematch_requests,
                   rematch_buttons, ret>>
    /\ UNCHANGED sideVars

NotifyKeepsRoom(t) ==
    /\ NoneEnded
    /\ t.pc = "notify"
    /\ LET room == rooms[t.room_id]
       IN rematch_buttons' = rematch_buttons \cup
             {[game_type |-> room.game_type, bet |-> room.bet,
               p1 |-> room.creator_id, p2 |-> room.opponent_id]}
    /\ Replace(t, End(t, "result_shown"))
    /\ UNCHANGED <<active_rooms, room_counter, rooms, balance, rematch_requests,
                   ledger, ret>>
    /\ UNCHANGED sideVars

NotifyDelete(t) ==
    /\ NoneEnded
    /\ t.pc = "notify"
    /\ LET room == rooms[t.room_id]
       IN rematch_buttons' = rematch_buttons \cup
             {[game_type |-> room.game_type, bet |-> room.bet,
               p1 |-> room.creator_id, p2 |-> room.opponent_id]}
    /\ SetRegistry(DeleteRoom(Registry, t.room_id).reg)
    /\ Replace(t, End(t, "result_shown"))
    /\ UNCHANGED <<balance, rematch_requests, ledger, ret>>
    /\ UNCHANGED sideVars

(* request_rematch *)

Min(a, b) == IF a < b THEN a ELSE b
Max(a, b) == IF a < b THEN b ELSE a
PairKeyAsGiven(p1, p2, game_type, bet) == <<p1, p2, game_type, bet>>

PairKey(p1, p2, game_type, bet) == <<Min(p1, p2), Max(p1, p2), game_type, bet>>

RematchStart(user_id, button) ==
    /\ CanSpawn
    /\ CanRematch
    /\ button \in rematch_buttons
    /\ Spawn([At(NewTask("rematch", user_id, NoneId), "rematch_bal")
                EXCEPT !.game_type = button.game_type, !.bet = button.bet,
                       !.p1 = button.p1, !.p2 = button.p2])
    /\ UNCHANGED <<active_rooms, room_counter, rooms, balance, rematch_requests,
                   rematch_buttons, ledger, ret>>
    /\ UNCHANGED sideVars

RematchBalNoRequesterCheck(t) ==
    /\ NoneEnded
    /\ t.pc = "rematch_bal"
    /\ LET pair_key == PairKey(t.p1, t.p2, t.game_type, t.bet)
           opponent_id == IF t.user = t.p1 THEN t.p2 ELSE t.p1
       IN IF GetBalance(balance, t.user) < t.bet
          THEN Replace(t, End(t, "no_funds")) /\ UNCHANGED rematch_requests
          ELSE IF pair_key \in DOMAIN rematch_requests
          THEN /\ Replace(t, [At(t, "rematch_accept") EXCEPT
                                !.req = rematch_requests[pair_key].requester_id])
               /\ UNCHANGED rematch_requests
          ELSE /\ rematch_requests' =
                     [k \in DOMAIN rematch_requests \cup {pair_key} |->
                        IF k = pair_key
                        THEN [requester_id |-> t.user, opponent_id |-> opponent_id,
                              game_type |-> t.game_type, bet |-> t.bet]
                        ELSE rematch_requests[k]]
               /\ Replace(t, End(t, "rematch_sent"))
    /\ UNCHANGED <<active_rooms, room_counter, rooms, balance, rematch_buttons,
                   ledger, ret>>
    /\ UNCHANGED sideVars

RematchBal(t) ==
    /\ NoneEnded
    /\ t.pc = "rematch_bal"
    /\ LET pair_key == PairKey(t.p1, t.p2, t.game_type, t.bet)
           opponent_id == IF t.user = t.p1 THEN t.p2 ELSE t.p1
       IN IF GetBalance(balance, t.user) < t.bet
          THEN Replace(t, End(t, "no_funds")) /\ UNCHANGED rematch_requests
          ELSE IF pair_key \in DOMAIN rematch_requests
          THEN /\ Replace(t, IF rematch_requests[pair_key].requester_id # t.user
                             THEN [At(t, "rematch_accept") EXCEPT
                                     !.req = rematch_requests[pair_key].requester_id]
                             ELSE End(t, "already_waiting"))
               /\ UNCHANGED rematch_requests
          ELSE /\ rematch_requests' =
                     [k \in DOMAIN rematch_requests \cup {pair_key} |->
                        IF k = pair_key
                        THEN [requester_id |-> t.user, opponent_id |-> opponent_id,
                              game_type |-> t.game_type, bet |-> t.bet]
                        ELSE rematch_requests[k]]
               /\ Replace(t, End(t, "rematch_sent"))
    /\ UNCHANGED <<active_rooms, room_counter, rooms, balance, rematch_buttons,
                   ledger, ret>>
    /\ UNCHANGED sideVars

RematchAcceptWithStakes(t) ==
    /\ NoneEnded
    /\ t.pc = "rematch_accept"
    /\ LET pair_key == PairKey(t.p1, t.p2, t.game_type, t.bet)
       IN IF pair_key \notin DOMAIN rematch_requests
          THEN /\ Replace(t, End(t, "KeyError"))
               /\ UNCHANGED <<active_rooms, room_counter, rooms, rematch_requests>>
          ELSE LET c == CreateRoom(Registry, t.req, t.game_type, t.bet)
                   j == JoinRoom(c.reg, c.room_id, t.user)
               IN /\ rematch_requests' =
                        [k \in DOMAIN rematch_requests \ {pair_key} |->
                           rematch_requests[k]]
                  /\ SetRegistry(IF c.raised THEN c.reg ELSE j.reg)
                  /\ Replace(t, IF c.raised THEN End(t, "ValueError")
                                ELSE StartMultiplayerGame(
                                       [t EXCEPT !.room_id = c.room_id], t.game_type))
    /\ balance' = UpdateBalance(UpdateBalance(balance, t.req, -t.bet), t.user, -t.bet)
    /\ UNCHANGED <<rematch_buttons, ledger, ret>>
    /\ UNCHANGED sideVars

RematchAccept(t) ==
    /\ NoneEnded
    /\ t.pc = "rematch_accept"
    /\ LET pair_key == PairKey(t.p1, t.p2, t.game_type, t.bet)
       IN IF pair_key \notin DOMAIN rematch_requests
          THEN /\ Replace(t, End(t, "KeyError"))
               /\ UNCHANGED <<active_rooms, room_counter, rooms, rematch_requests>>
          ELSE LET c == CreateRoom(Registry, t.req, t.game_type, t.bet)
                   j == JoinRoom(c.reg, c.room_id, t.user)
               IN /\ rematch_requests' =
                        [k \in DOMAIN rematch_requests \ {pair_key} |->
                           rematch_requests[k]]
                  /\ SetRegistry(IF c.raised THEN c.reg ELSE j.reg)
                  /\ Replace(t, IF c.raised THEN End(t, "ValueError")
                                ELSE StartMultiplayerGame(
                                       [t EXCEPT !.room_id = c.room_id], t.game_type))
    /\ UNCHANGED <<balance, rematch_buttons, ledger, ret>>
    /\ UNCHANGED sideVars

(* a handler returns *)

\* the frame is dropped; a room object that neither the registry nor a
\* coroutine refers to any more is garbage, and its history goes with it
Return(t) ==
    /\ t.pc = "end"
    /\ tasks' = tasks (-) SetToBag({t})
    /\ LET live == active_rooms \cup {x.room_id : x \in BagToSet(tasks')}
       IN /\ rooms' = [r \in DOMAIN rooms \cap live |-> rooms[r]]
          /\ ledger' = [r \in RoomIds |->
                          IF r \in DOMAIN rooms /\ r \notin live THEN <<>>
                          ELSE ledger[r]]
    /\ UNCHANGED <<active_rooms, room_counter, balance, rematch_requests,
                   rematch_buttons, ret>>
    /\ UNCHANGED sideVars

Init ==
    /\ active_rooms = {}
    /\ room_counter = FIRST_COUNTER
    /\ rooms = <<>>
    /\ InitCommon

Next ==
    \/ \E u \in Creators, g \in GameTypeInputs, b \in BetInputs :
          CreateRoomStart(u) /\ CreateStart(u, g, b)
    \/ \E r \in RoomIds : CancelStart(r)
    \/ \E r \in RoomIds : CheckStart(r)
    \/ \E u \in Users, r \in RoomIds : JoinStart(u, r)
    \/ \E u \in Users, r \in RoomIds, ch \in HandlerChoices : CoinChoiceStart(u, r, ch)
    \/ \E u \in Users, b \in rematch_buttons : RematchStart(u, b)
    \/ \E t \in BagToSet(tasks) : CreateBal(t)
    \/ \E t \in BagToSet(tasks) : CreateDebit(t)
    \/ \E t \in BagToSet(tasks) : CancelCredit(t)
    \/ \E t \in BagToSet(tasks) : JoinBal(t)
    \/ \E t \in BagToSet(tasks) : JoinDebit(t)
    \/ \E t \in BagToSet(tasks), c \in HandlerDie, o \in HandlerDie : DicePlayStep(t, c, o)
    \/ \E t \in BagToSet(tasks) : ShowDiceResult(t)
    \/ \E t \in BagToSet(tasks), f \in Sides : CoinPlayStep(t, f)
    \/ \E t \in BagToSet(tasks) : ShowCoinflipResult(t)
    \/ \E t \in BagToSet(tasks) : DrawOpponent(t)
    \/ \E t \in BagToSet(tasks) : History(t)
    \/ \E t \in BagToSet(tasks) : NotifyDelete(t)
    \/ \E t \in BagToSet(tasks) : RematchBal(t)
    \/ \E t \in BagToSet(tasks) : RematchAccept(t)
    \/ \E t \in BagToSet(tasks) : Return(t)

Spec == Init /\ [][Next]_vars

-----------------------------------------------------------------------------
(* SpecRematch: the bot after a restart.  room_manager and                 *)
(* rematch_requests are fresh, users.json kept the balances, and the       *)
(* result messages of earlier games between two users, with their rematch  *)
(* buttons, are still in the chats.  The users press those buttons and     *)
(* the side buttons of the rooms that come of it.                          *)

Button(game_type, bet, p1, p2) ==
    [game_type |-> game_type, bet |-> bet, p1 |-> p1, p2 |-> p2]

InitRematch ==
    /\ active_rooms = {}
    /\ room_counter = FIRST_COUNTER
    /\ rooms = <<>>
    /\ \E a \in Creators, b \in Users, g \in GameTypes, s \in Bets, both \in BOOLEAN :
          /\ a # b
          /\ rematch_buttons = {Button(g, s, a, b)}
                                 \cup (IF both THEN {Button(g, s, b, a)} ELSE {})
    /\ \E broke \in Users \cup {NoneId} :
          balance = [u \in Users |-> IF u = broke THEN 0 ELSE StartBalance]
    /\ rematch_requests = [k \in {} |-> NoneId]
    /\ tasks = EmptyBag
    /\ ledger = [r \in RoomIds |-> <<>>]
    /\ ret = NoRet
    /\ InitSide

\* a press of a rematch button, while the rematches of the model last
PressRematch(user_id, button) ==
    /\ room_counter < FIRST_COUNTER + MaxRematches
    /\ RematchStart(user_id, button)

NextRematch ==
    \/ \E u \in Users, b \in rematch_buttons : PressRematch(u, b)
    \/ \E t \in BagToSet(tasks) : RematchBal(t)
    \/ \E t \in BagToSet(tasks) : RematchAccept(t)
    \/ \E t \in BagToSet(tasks), c \in HandlerDie, o \in HandlerDie : DicePlayStep(t, c, o)
    \/ \E t \in BagToSet(tasks) : ShowDiceResult(t)
    \/ \E u \in Users, r \in RoomIds, ch \in Sides : CoinChoiceStart(u, r, ch)
    \/ \E t \in BagToSet(tasks), f \in Sides : CoinPlayStep(t, f)
    \/ \E t \in BagToSet(tasks) : ShowCoinflipResult(t)
    \/ \E t \in BagToSet(tasks) : DrawOpponent(t)
    \/ \E t \in BagToSet(tasks) : History(t)
    \/ \E t \in BagToSet(tasks) : NotifyDelete(t)
    \/ \E t \in BagToSet(tasks) : Return(t)

SpecRematch == InitRematch /\ [][NextRematch]_vars

-----------------------------------------------------------------------------
(* SpecStake: the create flow with the stake as float(message.text) gives  *)
(* it, NaN included, and the cancel and check buttons of the new room.     *)
(* Spec leaves NaN out: it follows the rooms through join and settlement,  *)
(* with stakes that are numbers.                                           *)

StakeInputs == BetInputs \cup {NaN}

NextStake ==
    \/ \E u \in Creators, g \in GameTypeInputs, b \in StakeInputs :
          CreateRoomStart(u) /\ CreateStart(u, g, b)
    \/ \E t \in BagToSet(tasks) : CreateBal(t)
    \/ \E t \in BagToSet(tasks) : CreateDebit(t)
    \/ \E r \in RoomIds : CancelStart(r)
    \/ \E t \in BagToSet(tasks) : CancelCredit(t)
    \/ \E r \in RoomIds : CheckStart(r)
    \/ \E t \in BagToSet(tasks) : Return(t)

SpecStake == Init /\ [][NextStake]_vars

-----------------------------------------------------------------------------
(* SpecCashout: the cashout dialog of a user, the approve and reject       *)
(* buttons of the admin, and the create and cancel flows that draw on the  *)
(* same balance.  cashout.json is read and written in one step here.       *)

MaxCashouts == 2
MaxRejects == 2
CashoutInputs == Bets \cup {0}
CashoutIds == 1..MaxCashouts

\* the state of the rooms
roomVars == <<active_rooms, room_counter, rooms, rematch_requests,
              rematch_buttons, ledger>>

\* a ledger call made outside the rooms; ref is the cashout or the invoice
JournalEntry(kind, user_id, amount, ref) ==
    [kind |-> kind, user |-> user_id, amount |-> amount, ref |-> ref]
Log(e) == journal' = journal (+) SetToBag({e})

PendingCashouts ==
    LET S == {t \in BagToSet(tasks) : t.h = "cashout"}
    IN BagCardinality([t \in S |-> tasks[t]])

(* process_cashout *)

CashoutStart(user_id, amount) ==
    /\ CanSpawn
    /\ Cardinality(DOMAIN cashouts) + PendingCashouts < MaxCashouts
    /\ Spawn([At(NewTask("cashout", user_id, NoneId), "cashout_bal")
                EXCEPT !.bet = amount])
    /\ UNCHANGED <<roomVars, ret, balance, sideVars>>

CashoutBal(t) ==
    /\ NoneEnded
    /\ t.pc = "cashout_bal"
    /\ Replace(t, IF t.bet < MIN_BET THEN End(t, "below_minimum")
                  ELSE IF t.bet > GetBalance(balance, t.user) THEN End(t, "no_funds")
                  ELSE At(t, "cashout_debit"))
    /\ UNCHANGED <<roomVars, ret, balance, sideVars>>

CashoutDebit(t) ==
    /\ NoneEnded
    /\ t.pc = "cashout_debit"
    /\ balance' = UpdateBalance(balance, t.user, 0 - t.bet)
    /\ Log(JournalEntry("cashout", t.user, 0 - t.bet, NoneId))
    /\ Replace(t, At(t, "cashout_create"))
    /\ UNCHANGED <<roomVars, ret, rooms_file, cashouts, active_invoices, crypto_paid>>

\* CashoutManager.create_cashout; the ids, made of the user and the time,
\* are numbered here in the order of creation
CreateCashout(cash, user_id, amount) ==
    LET cashout_id == Cardinality(DOMAIN cash) + 1
    IN [c \in DOMAIN cash \cup {cashout_id} |->
          IF c = cashout_id
          THEN [user_id |-> user_id, amount |-> amount, status |-> "pending"]
          ELSE cash[c]]

CashoutCreate(t) ==
    /\ NoneEnded
    /\ t.pc = "cashout_create"
    /\ cashouts' = CreateCashout(cashouts, t.user, t.bet)
    /\ Replace(t, End(t, "cashout_created"))
    /\ UNCHANGED <<roomVars, ret, balance, rooms_file, active_invoices, crypto_paid,
                   journal>>

\* CashoutManager.update_cashout_status: [cash, ok]
UpdateCashoutStatus(cash, cashout_id, status) ==
    IF cashout_id \in DOMAIN cash
    THEN [cash |-> [cash EXCEPT ![cashout_id].status = status], ok |-> TRUE]
    ELSE [cash |-> cash, ok |-> FALSE]

(* admin_approve_cashout *)

AdminApprove(is_admin, cashout_id) ==
    /\ CanSpawn
    /\ LET t == NewTask("approve", NoneId, NoneId)
           u == UpdateCashoutStatus(cashouts, cashout_id, "processed")
       IN IF ~is_admin
          THEN Spawn(Refuse(t, "denied")) /\ UNCHANGED cashouts
          ELSE /\ cashouts' = u.cash
               /\ Spawn(Refuse(t, IF u.ok THEN "approved" ELSE "not_found"))
    /\ UNCHANGED <<roomVars, ret, balance, rooms_file, active_invoices, crypto_paid,
                   journal>>

(* admin_reject_cashout *)

\* the rejects made or under way
Rejects ==
    LET S == {e \in BagToSet(journal) : e.kind = "cashout_refund"}
        T == {t \in BagToSet(tasks) : t.pc = "reject_credit"}
    IN BagCardinality([e \in S |-> journal[e]]) + BagCardinality([t \in T |-> tasks[t]])

RejectStart(is_admin, cashout_id) ==
    /\ CanSpawn
    /\ Rejects < MaxRejects
    /\ LET t == NewTask("reject", NoneId, NoneId)
       IN Spawn(IF ~is_admin THEN Refuse(t, "denied")
                ELSE IF cashout_id \notin DOMAIN cashouts THEN Refuse(t, "not_found")
                ELSE [At(t, "reject_credit") EXCEPT
                        !.user = cashouts[cashout_id].user_id,
                        !.bet = cashouts[cashout_id].amount,
                        !.req = cashout_id])
    /\ UNCHANGED <<roomVars, ret, balance, sideVars>>

RejectCredit(t) ==
    /\ NoneEnded
    /\ t.pc = "reject_credit"
    /\ balance' = UpdateBalance(balance, t.user, t.bet)
    /\ Log(JournalEntry("cashout_refund", t.user, t.bet, t.req))
    /\ Replace(t, At(t, "reject_status"))
    /\ UNCHANGED <<roomVars, ret, rooms_file, cashouts, active_invoices, crypto_paid>>

RejectStatus(t) ==
    /\ NoneEnded
    /\ t.pc = "reject_status"
    /\ LET u == UpdateCashoutStatus(cashouts, t.req, "cancelled")
       IN /\ cashouts' = u.cash
          /\ Replace(t, End(t, IF u.ok THEN "rejected" ELSE "status_error"))
    /\ UNCHANGED <<roomVars, ret, balance, rooms_file, active_invoices, crypto_paid,
                   journal>>

NextCashout ==
    \/ \E u \in Creators, a \in CashoutInputs : CashoutStart(u, a)
    \/ \E t \in BagToSet(tasks) : CashoutBal(t)
    \/ \E t \in BagToSet(tasks) : CashoutDebit(t)
    \/ \E t \in BagToSet(tasks) : CashoutCreate(t)
    \/ \E a \in BOOLEAN, c \in CashoutIds : AdminApprove(a, c)
    \/ \E a \in BOOLEAN, c \in CashoutIds : RejectStart(a, c)
    \/ \E t \in BagToSet(tasks) : RejectCredit(t)
    \/ \E t \in BagToSet(tasks) : RejectStatus(t)
    \/ \E u \in Creators, g \in GameTypes, b \in Bets :
          CreateRoomStart(u) /\ CreateStart(u, g, b)
    \/ \E t \in BagToSet(tasks) : CreateBal(t)
    \/ \E t \in BagToSet(tasks) : CreateDebit(t)
    \/ \E r \in RoomIds : CancelStart(r)
    \/ \E t \in BagToSet(tasks) : CancelCredit(t)
    \/ \E t \in BagToSet(tasks) : Return(t)

SpecCashout == Init /\ [][NextCashout]_vars

-----------------------------------------------------------------------------
(* SpecRematchFunds: SpecRematch with the cashout dialog, by which a       *)
(* player can spend between a rematch request and its acceptance.          *)

\* a cashout of a player who has asked for a rematch and waits for the
\* other player, one in a run of the model and before its first rematch room
WaitingCashout(user_id, amount) ==
    /\ room_counter = FIRST_COUNTER
    /\ cashouts = <<>>
    /\ PendingCashouts = 0
    /\ \E k \in DOMAIN rematch_requests : rematch_requests[k].requester_id = user_id
    /\ CashoutStart(user_id, amount)

NextRematchFunds ==
    \/ NextRematch
    \/ \E u \in Users, a \in Bets : WaitingCashout(u, a)
    \/ \E t \in BagToSet(tasks) : CashoutBal(t)
    \/ \E t \in BagToSet(tasks) : CashoutDebit(t)
    \/ \E t \in BagToSet(tasks) : CashoutCreate(t)

SpecRematchFunds == InitRematch /\ [][NextRematchFunds]_vars

-----------------------------------------------------------------------------
(* SpecDiceFair: the rooms of the dice game, with the scheduling of the    *)
(* event loop.  asyncio resumes every coroutine whose await has returned,  *)
(* in the order in which they became ready, so a handler that can go on    *)
(* does go on however many other updates arrive meanwhile; the ledger and  *)
(* the notifier are taken to return from every call.  No step of the users *)
(* is ever forced.                                                          *)

NextDice ==
    \/ \E u \in Creators, b \in Bets : CreateRoomStart(u) /\ CreateStart(u, "dice", b)
    \/ \E r \in RoomIds : CancelStart(r)
    \/ \E r \in RoomIds : CheckStart(r)
    \/ \E u \in Users, r \in RoomIds : JoinStart(u, r)
    \/ \E t \in BagToSet(tasks) : CreateBal(t)
    \/ \E t \in BagToSet(tasks) : CreateDebit(t)
    \/ \E t \in BagToSet(tasks) : CancelCredit(t)
    \/ \E t \in BagToSet(tasks) : JoinBal(t)
    \/ \E t \in BagToSet(tasks) : JoinDebit(t)
    \/ \E t \in BagToSet(tasks), c \in HandlerDie, o \in HandlerDie : DicePlayStep(t, c, o)
    \/ \E t \in BagToSet(tasks) : ShowDiceResult(t)
    \/ \E t \in BagToSet(tasks) : DrawOpponent(t)
    \/ \E t \in BagToSet(tasks) : History(t)
    \/ \E t \in BagToSet(tasks) : NotifyDelete(t)
    \/ \E t \in BagToSet(tasks) : Return(t)

Handlers == {"create", "cancel", "check", "join"}

\* the next step of a handler that is past its first await
Resume(t) ==
    \/ CreateBal(t)
    \/ CreateDebit(t)
    \/ CancelCredit(t)
    \/ JoinBal(t)
    \/ JoinDebit(t)
    \/ \E c \in HandlerDie, o \in HandlerDie : DicePlayStep(t, c, o)
    \/ ShowDiceResult(t)
    \/ DrawOpponent(t)
    \/ History(t)
    \/ NotifyDelete(t)

\* a handler that has answered returns; the coroutines of a handler that
\* can go on again and again do go on
EventLoop ==
    /\ WF_vars(\E t \in BagToSet(tasks) : Return(t))
    /\ \A h \in Handlers :
          SF_vars(\E t \in BagToSet(tasks) : t.h = h /\ Resume(t))

SpecDiceFair == Init /\ [][NextDice]_vars /\ EventLoop

-----------------------------------------------------------------------------
(* SpecInvoice: the deposits.  process_deposit opens an invoice and starts *)
(* auto_check_payment for it in the background; the user pays the invoice  *)
(* at the payment service and may press the check button any number of     *)
(* times.  active_invoices[i] is the dict made for invoice i; a handler     *)
(* that fetched it keeps it after its key was deleted, which the field     *)
(* listed records.                                                         *)

MaxInvoices == 2
\* the attempts of auto_check_payment, 120 in the code
MaxAttempts == 2
MaxManual == 2
DepositInputs == {10, 0}
InvoiceIds == 1..MaxInvoices
MIN_DEPOSIT == 5

Listed(invoice_id) ==
    invoice_id \in DOMAIN active_invoices /\ active_invoices[invoice_id].listed

\* del active_invoices[invoice_id]
Unlist(invoice_id) ==
    active_invoices' = [active_invoices EXCEPT ![invoice_id].listed = FALSE]

\* active_invoices[invoice_id]['processed'] = True
MarkProcessed(invoice_id) ==
    active_invoices' = [active_invoices EXCEPT ![invoice_id].processed = TRUE]

ManualRunning ==
    LET S == {t \in BagToSet(tasks) : t.h = "manual"}
    IN BagCardinality([t \in S |-> tasks[t]])

(* process_deposit *)

ProcessDeposit(user_id, amount) ==
    /\ NoneEnded
    /\ Cardinality(DOMAIN active_invoices) < MaxInvoices
    /\ IF amount < MIN_DEPOSIT
       THEN /\ Spawn(Refuse(NewTask("deposit", user_id, NoneId), "below_minimum"))
            /\ UNCHANGED active_invoices
       ELSE LET invoice_id == Cardinality(DOMAIN active_invoices) + 1
            IN /\ active_invoices' =
                     [i \in DOMAIN active_invoices \cup {invoice_id} |->
                        IF i = invoice_id
                        THEN [user_id |-> user_id, amount |-> amount,
                              processed |-> FALSE, listed |-> TRUE]
                        ELSE active_invoices[i]]
               /\ Spawn([At(NewTask("auto", user_id, NoneId), "auto_sleep")
                           EXCEPT !.req = invoice_id, !.result = [attempt |-> 0]])
    /\ UNCHANGED <<roomVars, ret, balance, rooms_file, cashouts, crypto_paid, journal>>

\* the user pays the invoice at the payment service
Pay(invoice_id) ==
    /\ invoice_id \in DOMAIN active_invoices
    /\ invoice_id \notin crypto_paid
    /\ crypto_paid' = crypto_paid \cup {invoice_id}
    /\ UNCHANGED <<roomVars, ret, balance, tasks, rooms_file, cashouts,
                   active_invoices, journal>>

(* auto_check_payment *)

\* the sleep of an attempt is over
AutoWake(t) ==
    /\ NoneEnded
    /\ t.pc = "auto_sleep"
    /\ Replace(t, IF ~Listed(t.req) THEN End(t, "removed")
                  ELSE [At(t, "auto_check")
                          EXCEPT !.result = [attempt |-> t.result.attempt + 1]])
    /\ UNCHANGED <<roomVars, ret, balance, sideVars>>

\* the end of an attempt that credited nothing: the next attempt, or the
\* timeout after the last one
AutoNextAttempt(t) ==
    IF t.result.attempt < MaxAttempts
    THEN /\ Replace(t, At(t, "auto_sleep"))
         /\ UNCHANGED active_invoices
    ELSE /\ Replace(t, End(t, "timeout"))
         /\ IF Listed(t.req) THEN Unlist(t.req) ELSE UNCHANGED active_invoices

\* crypto.check_invoice has answered, or has failed
AutoChecked(t, answered) ==
    /\ NoneEnded
    /\ t.pc = "auto_check"
    /\ IF answered /\ t.req \in crypto_paid
       THEN IF Listed(t.req) /\ active_invoices[t.req].processed
            THEN /\ Replace(t, End(t, "already_processed"))
                 /\ UNCHANGED active_invoices
            ELSE IF ~Listed(t.req)
            THEN AutoNextAttempt(t)
            ELSE /\ MarkProcessed(t.req)
                 /\ Replace(t, [At(t, "auto_deposit")
                                  EXCEPT !.bet = active_invoices[t.req].amount])
       ELSE AutoNextAttempt(t)
    /\ UNCHANGED <<roomVars, ret, balance, rooms_file, cashouts, crypto_paid, journal>>

\* Database.add_deposit
AddDeposit(bal, user_id, amount) == UpdateBalance(bal, user_id, amount)

AutoDeposit(t) ==
    /\ NoneEnded
    /\ t.pc = "auto_deposit"
    /\ balance' = AddDeposit(balance, t.user, t.bet)
    /\ Log(JournalEntry("deposit", t.user, t.bet, t.req))
    /\ Replace(t, At(t, "auto_notify"))
    /\ UNCHANGED <<roomVars, ret, rooms_file, cashouts, active_invoices, crypto_paid>>

AutoNotify(t) ==
    /\ NoneEnded
    /\ t.pc = "auto_notify"
    /\ IF Listed(t.req) THEN Unlist(t.req) ELSE UNCHANGED active_invoices
    /\ Replace(t, End(t, "credited"))
    /\ UNCHANGED <<roomVars, ret, balance, rooms_file, cashouts, crypto_paid, journal>>

(* manual_check_invoice *)

ManualStart(user_id, invoice_id) ==
    /\ NoneEnded
    /\ ManualRunning < MaxManual
    /\ LET t == NewTask("manual", user_id, NoneId)
       IN Spawn(IF ~Listed(invoice_id) THEN Refuse(t, "not_found")
                ELSE IF active_invoices[invoice_id].user_id # user_id
                THEN Refuse(t, "not_yours")
                ELSE [At(t, "manual_check") EXCEPT !.req = invoice_id])
    /\ UNCHANGED <<roomVars, ret, balance, sideVars>>

ManualCheckedUnflagged(t, answered) ==
    /\ NoneEnded
    /\ t.pc = "manual_check"
    /\ IF ~answered
       THEN /\ Replace(t, End(t, "not_in_service"))
            /\ UNCHANGED active_invoices
       ELSE IF t.req \notin crypto_paid
       THEN /\ Replace(t, End(t, "not_paid"))
            /\ UNCHANGED active_invoices
       ELSE IF ~Listed(t.req)
       THEN /\ Replace(t, End(t, "KeyError"))
            /\ UNCHANGED active_invoices
       ELSE /\ MarkProcessed(t.req)
            /\ Replace(t, [At(t, "manual_deposit")
                             EXCEPT !.bet = active_invoices[t.req].amount])
    /\ UNCHANGED <<roomVars, ret, balance, rooms_file, cashouts, crypto_paid, journal>>

\* crypto.check_invoice has answered, or has found nothing; invoice_data is
\* the dict fetched before the call
ManualChecked(t, answered) ==
    /\ NoneEnded
    /\ t.pc = "manual_check"
    /\ IF ~answered
       THEN /\ Replace(t, End(t, "not_in_service"))
            /\ UNCHANGED active_invoices
       ELSE IF t.req \notin crypto_paid
       THEN /\ Replace(t, End(t, "not_paid"))
            /\ UNCHANGED active_invoices
       ELSE IF active_invoices[t.req].processed
       THEN /\ Replace(t, End(t, "already_processed"))
            /\ UNCHANGED active_invoices
       ELSE IF ~Listed(t.req)
       THEN /\ Replace(t, End(t, "KeyError"))
            /\ UNCHANGED active_invoices
       ELSE /\ MarkProcessed(t.req)
            /\ Replace(t, [At(t, "manual_deposit")
                             EXCEPT !.bet = active_invoices[t.req].amount])
    /\ UNCHANGED <<roomVars, ret, balance, rooms_file, cashouts, crypto_paid, journal>>

ManualDeposit(t) ==
    /\ NoneEnded
    /\ t.pc = "manual_deposit"
    /\ balance' = AddDeposit(balance, t.user, t.bet)
    /\ Log(JournalEntry("deposit", t.user, t.bet, t.req))
    /\ Replace(t, At(t, "manual_done"))
    /\ UNCHANGED <<roomVars, ret, rooms_file, cashouts, active_invoices, crypto_paid>>

ManualDone(t) ==
    /\ NoneEnded
    /\ t.pc = "manual_done"
    /\ IF Listed(t.req)
       THEN /\ Unlist(t.req)
            /\ Replace(t, End(t, "confirmed"))
       ELSE /\ UNCHANGED active_invoices
            /\ Replace(t, End(t, "KeyError"))
    /\ UNCHANGED <<roomVars, ret, balance, rooms_file, cashouts, crypto_paid, journal>>

NextInvoice ==
    \/ \E u \in Users, a \in DepositInputs : ProcessDeposit(u, a)
    \/ \E i \in InvoiceIds : Pay(i)
    \/ \E u \in Users, i \in InvoiceIds : ManualStart(u, i)
    \/ \E t \in BagToSet(tasks) : AutoWake(t)
    \/ \E t \in BagToSet(tasks), answered \in BOOLEAN : AutoChecked(t, answered)
    \/ \E t \in BagToSet(tasks) : AutoDeposit(t)
    \/ \E t \in BagToSet(tasks) : AutoNotify(t)
    \/ \E t \in BagToSet(tasks), answered \in BOOLEAN : ManualChecked(t, answered)
    \/ \E t \in BagToSet(tasks) : ManualDeposit(t)
    \/ \E t \in BagToSet(tasks) : ManualDone(t)
    \/ \E t \in BagToSet(tasks) : Return(t)

SpecInvoice == Init /\ [][NextInvoice]_vars

-----------------------------------------------------------------------------
(* SpecDatabase: the calls of Database that write users.json, each a       *)
(* coroutine that loads the whole file, changes its copy and saves it.     *)
(* Opening the file for writing empties it; the text arrives when the      *)
(* file is closed.  journal lists the calls that were made.                *)

MaxDbCalls == 3
DbCalls == {"update_balance", "add_deposit", "add_game_to_history"}
DbAmounts == {10, 0 - 10}

\* the change of the balance that the call asks for
Delta(kind, amount) == IF kind = "add_game_to_history" THEN 0 ELSE amount

DbStart(kind, user_id, amount) ==
    /\ CanSpawn
    /\ BagCardinality(journal) < MaxDbCalls
    /\ Spawn([At(NewTask(kind, user_id, NoneId), "db_load") EXCEPT !.bet = amount])
    /\ Log(JournalEntry(kind, user_id, Delta(kind, amount), NoneId))
    /\ UNCHANGED <<roomVars, ret, balance, rooms_file, cashouts, active_invoices,
                   crypto_paid>>

\* Database.load_data and the change made to the copy
DbLoad(t) ==
    /\ NoneEnded
    /\ t.pc = "db_load"
    /\ Replace(t, IF t.user \notin DOMAIN balance THEN End(t, "no_user")
                  ELSE [At(t, "db_open") EXCEPT
                          !.result = [data |-> UpdateBalance(balance, t.user,
                                                             Delta(t.h, t.bet))]])
    /\ UNCHANGED <<roomVars, ret, balance, sideVars>>

\* Database.save_data: aiofiles.open(db_path, 'w')
DbOpen(t) ==
    /\ NoneEnded
    /\ t.pc = "db_open"
    /\ balance' = <<>>
    /\ Replace(t, At(t, "db_write"))
    /\ UNCHANGED <<roomVars, ret, sideVars>>

\* Database.save_data: the text is written and the file closed
DbWrite(t) ==
    /\ NoneEnded
    /\ t.pc = "db_write"
    /\ balance' = t.result.data
    /\ Replace(t, End(t, "saved"))
    /\ UNCHANGED <<roomVars, ret, sideVars>>

NextDatabase ==
    \/ \E k \in DbCalls, u \in Users, a \in DbAmounts : DbStart(k, u, a)
    \/ \E t \in BagToSet(tasks) : DbLoad(t)
    \/ \E t \in BagToSet(tasks) : DbOpen(t)
    \/ \E t \in BagToSet(tasks) : DbWrite(t)
    \/ \E t \in BagToSet(tasks) : Return(t)

SpecDatabase == Init /\ [][NextDatabase]_vars

-----------------------------------------------------------------------------
(* SpecRegistry: one RoomManager driven call by call, with the methods of  *)
(* the rooms it hands out                                                  *)

MaxRegRooms == 2
RegBet == 10
RegRoomIds == (FIRST_COUNTER + 1)..(FIRST_COUNTER + MaxRegRooms)

\* RoomManager.cleanup_finished_rooms
CleanupFinishedRooms(reg) ==
    [reg EXCEPT !.active = {r \in reg.active : reg.heap[r].status # "finished"}]

\* nobody but the registry holds the rooms here: a room taken out of
\* active_rooms is gone
Held(reg) == [reg EXCEPT !.heap = [r \in reg.active |-> reg.heap[r]]]

Called(op, user_id, room_id, ok) ==
    [NoRet EXCEPT !.op = op, !.user = user_id, !.ok = ok,
                  !.result = [room_id |-> room_id]]

regOther == <<balance, rematch_requests, rematch_buttons, tasks, ledger>>

RegCreate(creator_id, game_type, bet) ==
    /\ room_counter < FIRST_COUNTER + MaxRegRooms
    /\ LET c == CreateRoom(Registry, creator_id, game_type, bet)
       IN /\ SetRegistry(c.reg)
          /\ ret' = Called("create", creator_id, c.room_id, ~c.raised)
    /\ UNCHANGED regOther
    /\ UNCHANGED sideVars

RegJoin(room_id, opponent_id) ==
    /\ LET j == JoinRoom(Registry, room_id, opponent_id)
       IN /\ SetRegistry(j.reg)
          /\ ret' = Called("join", opponent_id, room_id, j.ok)
    /\ UNCHANGED regOther
    /\ UNCHANGED sideVars

RegDelete(room_id) ==
    /\ LET d == DeleteRoom(Registry, room_id)
       IN /\ SetRegistry(Held(d.reg))
          /\ ret' = Called("delete", NoneId, room_id, d.ok)
    /\ UNCHANGED regOther
    /\ UNCHANGED sideVars

RegCleanup ==
    /\ SetRegistry(Held(CleanupFinishedRooms(Registry)))
    /\ ret' = Called("cleanup", NoneId, NoneId, TRUE)
    /\ UNCHANGED regOther
    /\ UNCHANGED sideVars

RegGetWaitingRooms(game_type) ==
    /\ ret' = [Called("get_waiting_rooms", NoneId, NoneId, TRUE)
                 EXCEPT !.choice = game_type,
                        !.result = [room_id |-> NoneId,
                                    rooms |-> GetWaitingRooms(Registry, game_type)]]
    /\ UNCHANGED <<active_rooms, room_counter, rooms>>
    /\ UNCHANGED regOther
    /\ UNCHANGED sideVars

RegSetCreatorChoice(room_id, choice) ==
    /\ GetRoom(Registry, room_id) # NoneId
    /\ rooms[room_id].game_type = "coinflip"
    /\ rooms' = [rooms EXCEPT ![room_id] = SetCreatorChoice(@, choice)]
    /\ ret' = [Called("set_creator_choice", NoneId, room_id, TRUE)
                 EXCEPT !.choice = choice]
    /\ UNCHANGED <<active_rooms, room_counter>>
    /\ UNCHANGED regOther
    /\ UNCHANGED sideVars

RegDicePlay(room_id, c, o) ==
    /\ GetRoom(Registry, room_id) # NoneId
    /\ rooms[room_id].game_type = "dice"
    /\ LET p == DicePlay(rooms[room_id], c, o)
       IN /\ rooms' = [rooms EXCEPT ![room_id] = p.room]
          /\ ret' = Called("play", NoneId, room_id, "error" \notin DOMAIN p.result)
    /\ UNCHANGED <<active_rooms, room_counter>>
    /\ UNCHANGED regOther
    /\ UNCHANGED sideVars

RegCoinflipPlay(room_id, flip) ==
    /\ GetRoom(Registry, room_id) # NoneId
    /\ rooms[room_id].game_type = "coinflip"
    /\ LET p == CoinflipPlay(rooms[room_id], flip)
       IN /\ rooms' = [rooms EXCEPT ![room_id] = p.room]
          /\ ret' = Called("play", NoneId, room_id, "error" \notin DOMAIN p.result)
    /\ UNCHANGED <<active_rooms, room_counter>>
    /\ UNCHANGED regOther
    /\ UNCHANGED sideVars

NextRegistry ==
    \/ \E u \in Users, g \in GameTypeInputs : RegCreate(u, g, RegBet)
    \/ \E r \in RegRoomIds, u \in Users : RegJoin(r, u)
    \/ \E r \in RegRoomIds : RegDelete(r)
    \/ RegCleanup
    \/ \E g \in GameTypeInputs \cup {"None"} : RegGetWaitingRooms(g)
    \/ \E r \in RegRoomIds, ch \in Sides : RegSetCreatorChoice(r, ch)
    \/ \E r \in RegRoomIds, c \in HandlerDie, o \in HandlerDie : RegDicePlay(r, c, o)
    \/ \E r \in RegRoomIds, f \in Sides : RegCoinflipPlay(r, f)

SpecRegistry == Init /\ [][NextRegistry]_vars

-----------------------------------------------------------------------------
(* SpecPersist: one RoomManager with its file active_rooms.json, which     *)
(* outlives the process: save_rooms, a restart of the bot, load_rooms,     *)
(* and the calls that create, join and delete rooms.                       *)

\* MultiplayerGame.to_dict, CoinflipGame.to_dict
ToDict(room) ==
    LET keys == IF room.game_type = "coinflip" THEN DOMAIN room
                ELSE DOMAIN room \ {"creator_choice"}
    IN [k \in keys |-> room[k]]

\* RoomManager.save_rooms
SaveRooms(reg) == [r \in reg.active |-> ToDict(reg.heap[r])]

\* RoomManager.load_rooms: the rooms of the file, with their opponent and
\* status, are put into active_rooms; room_counter is left as it is
LoadRooms(reg, file) ==
    LET known == {r \in DOMAIN file : file[r].game_type \in GameTypes}
        restored(r) == [MultiplayerGame(file[r].room_id, file[r].creator_id,
                                        file[r].bet, file[r].game_type)
                          EXCEPT !.opponent_id = file[r].opponent_id,
                                 !.status = file[r].status]
    IN [reg EXCEPT !.active = reg.active \cup known,
                   !.heap = [r \in DOMAIN reg.heap \cup known |->
                               IF r \in known THEN restored(r) ELSE reg.heap[r]]]

RegSaveRooms ==
    /\ rooms_file' = SaveRooms(Registry)
    /\ ret' = Called("save_rooms", NoneId, NoneId, TRUE)
    /\ UNCHANGED <<active_rooms, room_counter, rooms>>
    /\ UNCHANGED regOther
    /\ UNCHANGED <<cashouts, active_invoices, crypto_paid, journal>>

RegLoadRooms ==
    /\ SetRegistry(Held(LoadRooms(Registry, rooms_file)))
    /\ ret' = Called("load_rooms", NoneId, NoneId, TRUE)
    /\ UNCHANGED regOther
    /\ UNCHANGED sideVars

\* the process ends and starts again: room_manager = RoomManager()
Restart ==
    /\ active_rooms' = {}
    /\ rooms' = <<>>
    /\ room_counter' = FIRST_COUNTER
    /\ ret' = Called("restart", NoneId, NoneId, TRUE)
    /\ UNCHANGED regOther
    /\ UNCHANGED sideVars

NextPersist ==
    \/ \E u \in Creators, g \in GameTypes : RegCreate(u, g, RegBet)
    \/ \E r \in RegRoomIds, u \in Users : RegJoin(r, u)
    \/ \E r \in RegRoomIds : RegDelete(r)
    \/ RegSaveRooms
    \/ RegLoadRooms
    \/ Restart

SpecPersist == Init /\ [][NextPersist]_vars

-----------------------------------------------------------------------------
(* Properties of one room object (SpecRoom) *)

roomObj == rooms[TheRoom]

Played == ret.op = "play" /\ ret.ok

\* C3: play() on a room that is not playing (waiting or finished) returns an
\* error value and changes nothing of the room; a play() that succeeds finds
\* the room playing and leaves it finished, and a finished room stays
\* finished, so play() succeeds at most once per room object.
PlayOnlyOncePerRoom ==
    [][/\ (ret'.op = "play" /\ rooms[TheRoom].status # "playing")
            => ("error" \in DOMAIN ret'.result /\ ~ret'.ok /\ rooms' = rooms)
       /\ (ret'.op = "play" /\ ret'.ok)
            => (rooms[TheRoom].status = "playing"
                /\ rooms'[TheRoom].status = "finished")
       /\ rooms[TheRoom].status = "finished"
            => rooms'[TheRoom].status = "finished"]_vars

\* a second play() was refused on a room an earlier play() finished
SecondPlayRefused ==
    /\ ret.op = "play"
    /\ ret.result = [error |-> "Game is not ready"]
    /\ roomObj.status = "finished"
    /\ roomObj.winner_id # NoneId

\* C7: for every pair of rolls (c, o) of the dice, play() makes the creator
\* the winner when c > o, the opponent when o > c, and nobody with is_draw
\* true exactly when c = o; both rolls lie in 1..6 and are stored in the roomObj.
HighDieResolution ==
    (Played /\ roomObj.game_type = "dice") =>
        LET c == ret.result.creator_result
            o == ret.result.opponent_result
        IN /\ c \in 1..6 /\ o \in 1..6
           /\ roomObj.creator_result = c /\ roomObj.opponent_result = o
           /\ roomObj.winner_id = ret.result.winner_id
           /\ c > o => ret.result.winner_id = roomObj.creator_id
           /\ o > c => ret.result.winner_id = roomObj.opponent_id
           /\ (c = o) <=> (ret.result.winner_id = NoneId)
           /\ ret.result.is_draw <=> (c = o)

\* equal rolls were drawn and the dice game ended in a draw
DiceTieIsDraw ==
    /\ Played /\ roomObj.game_type = "dice"
    /\ ret.result.creator_result = ret.result.opponent_result
    /\ ret.result.is_draw
    /\ roomObj.creator_id # roomObj.opponent_id

\* C8: for every creator choice in {heads, tails} and every flip, the
\* opponent gets the other side, the winner is the creator when the flip is
\* the creator's side and the opponent otherwise, and there is a winner.
CoinPickResolution ==
    (Played /\ roomObj.game_type = "coinflip" /\ ret.result.creator_choice \in Sides) =>
        /\ ret.result.opponent_choice \in Sides \ {ret.result.creator_choice}
        /\ ret.result.winner_id =
              IF ret.result.result = ret.result.creator_choice
              THEN roomObj.creator_id ELSE roomObj.opponent_id
        /\ ret.result.winner_id # NoneId
        /\ ~ret.result.is_draw
        /\ roomObj.winner_id = ret.result.winner_id

\* the flip fell on the opponent's side and the opponent won
CoinOpponentWins ==
    /\ Played /\ roomObj.game_type = "coinflip"
    /\ ret.result.creator_choice \in Sides
    /\ ret.result.result = ret.result.opponent_choice
    /\ roomObj.opponent_id # roomObj.creator_id
    /\ ret.result.winner_id = roomObj.opponent_id

\* C10: play() of a playing coinflip room whose creator choice is not set
\* returns the error "Creator must make a choice" and leaves the room as it
\* was (still playing, no result, no winner); on a playing room whose choice
\* is set, play() succeeds, whatever was refused before.
CoinPlayNeedsChoice ==
    [][(ret'.op = "play" /\ rooms[TheRoom].game_type = "coinflip"
          /\ rooms[TheRoom].status = "playing") =>
          IF Falsy(rooms[TheRoom].creator_choice)
          THEN /\ ret'.result = [error |-> "Creator must make a choice"]
               /\ rooms' = rooms
          ELSE /\ ret'.ok
               /\ rooms'[TheRoom].status = "finished"]_vars

\* play() was refused for want of a choice and the room is untouched
ChoiceMissingRefused ==
    /\ ret.op = "play"
    /\ ret.result = [error |-> "Creator must make a choice"]
    /\ roomObj.status = "playing"
    /\ roomObj.winner_id = NoneId
    /\ roomObj.creator_result = "None"

\* C13: MultiplayerGame.join itself refuses the creator of the room: join
\* with the creator's id fails and the room does not start playing.
RoomJoinRejectsCreator ==
    (ret.op = "join" /\ ret.user = roomObj.creator_id) =>
        (~ret.ok /\ roomObj.opponent_id # roomObj.creator_id)

Rank(status) == IF status = "waiting" THEN 0 ELSE IF status = "playing" THEN 1 ELSE 2

\* C15: the status of a room only moves forward, one step at a time, along
\* waiting, playing, finished, whatever join, set_creator_choice or play is
\* called; a finished room stays finished, and a room that is playing has
\* its opponent set.
StatusOnlyForward ==
    [][/\ Rank(rooms'[TheRoom].status) \in
             {Rank(rooms[TheRoom].status), Rank(rooms[TheRoom].status) + 1}
       /\ rooms[TheRoom].status = "finished" => rooms'[TheRoom].status = "finished"
       /\ rooms'[TheRoom].status = "playing" => rooms'[TheRoom].opponent_id # NoneId]_vars

\* join was called on a finished room and the room is still finished
JoinAfterFinish ==
    /\ ret.op = "join" /\ ~ret.ok
    /\ roomObj.status = "finished"
    /\ roomObj.opponent_id # NoneId

-----------------------------------------------------------------------------
(* Properties of the registry (SpecRegistry) *)

calledRoom == ret.result.room_id

\* C11: join_room on a room that is already playing or finished returns
\* False for every opponent id and changes nothing of the room (opponent,
\* status, results) nor of the registry.
JoinTakenRefused ==
    [][(/\ ret'.op = "join"
        /\ ret'.result.room_id \in active_rooms
        /\ rooms[ret'.result.room_id].status # "waiting")
          => (~ret'.ok /\ rooms' = rooms /\ active_rooms' = active_rooms)]_vars

\* a user who is neither player was refused at a finished room
ThirdJoinerRefused ==
    /\ ret.op = "join" /\ ~ret.ok
    /\ calledRoom \in active_rooms
    /\ rooms[calledRoom].status = "finished"
    /\ ret.user \notin {rooms[calledRoom].creator_id, rooms[calledRoom].opponent_id}

\* C12: join_room by the creator of the room returns False whatever the
\* room's status and leaves the room as it was (waiting without opponent
\* when it was waiting); join_room on an id the registry does not hold
\* returns False.
SelfJoinRefused ==
    [][ret'.op = "join" =>
         /\ ret'.result.room_id \notin active_rooms
               => (~ret'.ok /\ rooms' = rooms /\ active_rooms' = active_rooms)
         /\ (/\ ret'.result.room_id \in active_rooms
             /\ rooms[ret'.result.room_id].creator_id = ret'.user)
               => (~ret'.ok /\ rooms' = rooms /\ active_rooms' = active_rooms)]_vars

\* the creator tried to join the own waiting room: it is still waiting
CreatorJoinRefused ==
    /\ ret.op = "join" /\ ~ret.ok
    /\ calledRoom \in active_rooms
    /\ rooms[calledRoom].creator_id = ret.user
    /\ rooms[calledRoom].status = "waiting"
    /\ rooms[calledRoom].opponent_id = NoneId

\* C18: room ids are unique and never reused: the counter never decreases,
\* every id in use is at most the counter, and create_room returns an id
\* above the counter it found, so above every id returned before, deleted or
\* not; the new room is stored waiting and without opponent.
RoomIdsUnique ==
    [][/\ room_counter' >= room_counter
       /\ \A r \in active_rooms' : r <= room_counter'
       /\ (ret'.op = "create" /\ ret'.ok) =>
             LET id == ret'.result.room_id
             IN /\ id > room_counter /\ id = room_counter'
                /\ id \notin active_rooms /\ id \in active_rooms'
                /\ rooms'[id].room_id = id
                /\ rooms'[id].creator_id = ret'.user
                /\ rooms'[id].status = "waiting"
                /\ rooms'[id].opponent_id = NoneId]_vars

\* a second room was created after the first one had been deleted
CreatedAfterDelete ==
    /\ ret.op = "create" /\ ret.ok
    /\ calledRoom = FIRST_COUNTER + 2
    /\ active_rooms = {calledRoom}

-----------------------------------------------------------------------------
(* Further properties of the registry (SpecRegistry) *)

\* C25: create_room with a game type that is neither dice nor coinflip
\* answers with a failure value, without raising, and changes nothing of
\* the registry: no room is stored and the counter stays, so that the next
\* room gets the id it would have got without the failed call.
FailedCreateKeepsCounter ==
    [][(ret'.op = "create" /\ ~ret'.ok)
          => /\ room_counter' = room_counter
             /\ active_rooms' = active_rooms
             /\ rooms' = rooms]_vars

Range(seq) == {seq[i] : i \in DOMAIN seq}

\* C28: get_waiting_rooms returns exactly the rooms of the registry that
\* are waiting, each once, and of the game type asked for when one is
\* given; no playing or finished room is in the list and no waiting room
\* of that type is missing; the registry is left as it was.
WaitingRoomsExact ==
    [][ret'.op = "get_waiting_rooms"
          => /\ Range(ret'.result.rooms) =
                   {r \in active_rooms :
                      /\ rooms[r].status = "waiting"
                      /\ (ret'.choice = "None" \/ rooms[r].game_type = ret'.choice)}
             /\ Len(ret'.result.rooms) = Cardinality(Range(ret'.result.rooms))
             /\ UNCHANGED <<active_rooms, room_counter, rooms>>]_vars

\* the registry holds a waiting room of the type asked for and a room that
\* is playing: the list has the first and not the second
WaitingListedPlayingNot ==
    /\ ret.op = "get_waiting_rooms" /\ ret.choice \in GameTypes
    /\ Len(ret.result.rooms) = 1
    /\ \E r \in active_rooms : rooms[r].status = "playing"
    /\ \A i \in DOMAIN ret.result.rooms :
          rooms[ret.result.rooms[i]].status = "waiting"

\* C29: delete_room returns True exactly when the registry held the room;
\* after it get_room of that id finds nothing, and every other room and the
\* counter are as before; on an id the registry does not hold it returns
\* False and changes nothing.
DeleteExact ==
    [][ret'.op = "delete"
          => LET room_id == ret'.result.room_id
             IN /\ ret'.ok = (room_id \in active_rooms)
                /\ active_rooms' = active_rooms \ {room_id}
                /\ room_id \notin active_rooms'
                /\ \A r \in active_rooms' : rooms'[r] = rooms[r]
                /\ room_counter' = room_counter
                /\ room_id \notin active_rooms
                      => (active_rooms' = active_rooms /\ rooms' = rooms)]_vars

\* one of two rooms was deleted; the other is still held
DeletedOneOfTwo ==
    /\ ret.op = "delete" /\ ret.ok
    /\ calledRoom \notin active_rooms
    /\ Cardinality(active_rooms) = 1
    /\ \E r \in active_rooms : rooms[r].status = "playing"

-----------------------------------------------------------------------------
(* Properties of the handlers (Spec), stated over the ledger calls made   *)
(* for each room                                                           *)

Entries(r, kind) == {i \in DOMAIN ledger[r] : ledger[r][i].kind = kind}
Count(r, kind) == Cardinality(Entries(r, kind))
Running == BagToSet(tasks)

JoinedOnce ==
    \A r \in DOMAIN rooms :
        /\ Count(r, "join") <= 1
        /\ \A i \in Entries(r, "join") :
              /\ ledger[r][i].user = rooms[r].opponent_id
              /\ ledger[r][i].amount = -rooms[r].bet
        /\ \A t \in Running :
              (t.h = "join" /\ t.room_id = r) =>
                 /\ t.pc = "join_debit" =>
                       (rooms[r].opponent_id = t.user /\ Count(r, "join") = 0
                        /\ tasks[t] = 1)
                 /\ (t.msg \in {"join_failed", "no_funds"}
                        /\ t.user # rooms[r].opponent_id) =>
                       \A i \in Entries(r, "join") : ledger[r][i].user # t.user

\* C1: however the join attempts on a room interleave, at most one succeeds:
\* the room's opponent, once set, never changes; at most one debit of the
\* stake is made for joining, from the user who became the opponent; a
\* joiner who was told the join failed is not debited.
OneJoinerPerRoom ==
    [][/\ JoinedOnce'
       /\ \A r \in DOMAIN rooms \cap DOMAIN rooms' :
             rooms[r].opponent_id # NoneId
                => rooms'[r].opponent_id = rooms[r].opponent_id]_vars

\* two users raced for a room: one became the opponent and was debited, the
\* other passed the status check, then was told the join failed
JoinRaceLost ==
    \E t \in Running : \E r \in DOMAIN rooms :
        /\ t.h = "join" /\ t.pc = "end" /\ t.msg = "join_failed" /\ t.room_id = r
        /\ t.user \notin {rooms[r].creator_id, rooms[r].opponent_id}
        /\ r \in active_rooms
        /\ Count(r, "join") = 1

\* C2: for every room, whichever handlers call play() on it, the settlement
\* is written to the ledger at most once: one prize, or one refund of a draw
\* to the creator and one to the opponent, never both kinds.
SettledAtMostOnce ==
    \A r \in DOMAIN rooms :
        /\ Count(r, "win") <= 1
        /\ Count(r, "draw_refund") <= 2
        /\ Count(r, "win") = 0 \/ Count(r, "draw_refund") = 0
        /\ \A i, j \in Entries(r, "draw_refund") :
              i # j => ledger[r][i].user # ledger[r][j].user
        /\ Count(r, "history") <= 2

\* a refresh called play() on a room a join had already played and settled:
\* it got the error and ended without a ledger call
SecondSettlementRefused ==
    \E t \in Running :
        /\ t.h = "check" /\ t.pc = "end" /\ t.msg = "KeyError"
        /\ Count(t.room_id, "win") = 1

\* C4: the prize of a match that was not a draw is 2 * s * (1 - f / 100) for
\* the stake s and the fee f: the fee is taken on both stakes; it goes to the
\* winner and the loser gets no credit; in a draw the creator and the
\* opponent each get s back.
SettlementAmounts ==
    \A r \in DOMAIN rooms :
        LET s == rooms[r].bet
            players == {rooms[r].creator_id, rooms[r].opponent_id}
            settled == Count(r, "history") > 0
        IN /\ \A i \in Entries(r, "win") :
                 /\ ledger[r][i].amount * 100 = 2 * s * (100 - HOUSE_FEE)
                 /\ ledger[r][i].user = rooms[r].winner_id
                 /\ ledger[r][i].user \in players
           /\ \A i \in Entries(r, "draw_refund") :
                 /\ ledger[r][i].amount = s
                 /\ ledger[r][i].user \in players
                 /\ rooms[r].winner_id = NoneId
           /\ (settled /\ rooms[r].winner_id # NoneId) =>
                 (Count(r, "win") = 1 /\ Count(r, "draw_refund") = 0)
           /\ (settled /\ rooms[r].winner_id = NoneId) =>
                 /\ Count(r, "win") = 0
                 /\ {ledger[r][i].user : i \in Entries(r, "draw_refund")} = players

\* a match with two players was won and settled: the prize went to the
\* winner and the history shows nothing won by the loser
PrizePaid ==
    \E r \in DOMAIN rooms :
        /\ rooms[r].creator_id # rooms[r].opponent_id
        /\ Count(r, "win") = 1
        /\ \E i \in Entries(r, "history") :
              ledger[r][i].user # rooms[r].winner_id /\ ledger[r][i].amount = 0

\* C5: a cancel and a join that race on a waiting room do not both win: the
\* creator is never refunded by cancel for a room that has accepted an
\* opponent.
CancelExcludesJoin ==
    \A r \in DOMAIN rooms :
        Count(r, "cancel_refund") = 0 \/ rooms[r].opponent_id = NoneId

\* C6: cancelling a waiting room returns the stake to its creator once; a
\* room that is not waiting is not refunded.
CancelRefundsOnce ==
    \A r \in DOMAIN rooms : Count(r, "cancel_refund") <= 1

\* C9: a coinflip room never finishes without a winner, whatever choice was
\* stored.
CoinflipNeverDraw ==
    \A r \in DOMAIN rooms :
        (rooms[r].game_type = "coinflip" /\ rooms[r].status = "finished")
            => rooms[r].winner_id # NoneId

\* C14: in every reachable state every room of the registry, the rooms made
\* by a rematch included, has an opponent different from its creator.
OpponentIsNotCreator ==
    \A r \in active_rooms : rooms[r].opponent_id # rooms[r].creator_id

\* a room made by an accepted rematch is in the registry with both players
RematchRoomPlaying ==
    \E r \in active_rooms :
        /\ r > FIRST_COUNTER + MaxRooms
        /\ rooms[r].status = "playing"
        /\ rooms[r].opponent_id # NoneId

\* C16: the creator's choice of a coinflip room is set once and only while
\* the room is playing: the stored choice changes only from unset, in a
\* playing room; a later attempt does not change it.
ChoiceSetOnceWhilePlaying ==
    [][\A r \in DOMAIN rooms \cap DOMAIN rooms' :
          rooms'[r].creator_choice # rooms[r].creator_choice
             => (rooms[r].creator_choice = "None" /\ rooms[r].status = "playing")]_vars

\* C17: only the creator of a room sets its choice: a coin-choice press by
\* any other user, the opponent included, is refused, leaves creator_choice
\* as it was and never goes on to play().
OnlyCreatorChooses ==
    [][/\ \A r \in DOMAIN rooms \cap DOMAIN rooms' :
             rooms'[r].creator_choice # rooms[r].creator_choice
                => \E t \in BagToSet(tasks') :
                      /\ t.h = "coin_choice" /\ t.room_id = r
                      /\ t.user = rooms[r].creator_id
                      /\ CopiesIn(t, tasks') > CopiesIn(t, tasks)
       /\ \A t \in BagToSet(tasks') :
             (t.h = "coin_choice" /\ t.room_id # NoneId)
                => t.user = rooms'[t.room_id].creator_id]_vars

\* somebody else pressed a side of a playing coinflip room whose creator had
\* not chosen yet: the press was refused and the choice is still unset
StrangerChoiceRefused ==
    /\ \E t \in Running : t.h = "coin_choice" /\ t.msg = "creator_only"
    /\ \E r \in RoomIds :
          /\ active_rooms = {r}
          /\ rooms[r].game_type = "coinflip"
          /\ rooms[r].status = "playing"
          /\ rooms[r].creator_choice = "None"

-----------------------------------------------------------------------------
(* Properties of the rematch (SpecRematch) *)

\* the coroutine t took its step
Resumed(t) == CopiesIn(t, tasks') < CopiesIn(t, tasks)
Arrived(t) == CopiesIn(t, tasks') > CopiesIn(t, tasks)

Key(t) == PairKey(t.p1, t.p2, t.game_type, t.bet)
Funded(t) == GetBalance(balance, t.user) >= t.bet

\* C19: a second rematch request of the same requester for the same pair,
\* game and stake, before anyone answered the first, is told that the
\* requester is already waiting; the one outstanding request stays as it
\* was, with that requester, and no room is created.
RematchRequestIdempotent ==
    [][\A t \in Running :
          (/\ t.pc = "rematch_bal" /\ Resumed(t) /\ Funded(t)
           /\ Key(t) \in DOMAIN rematch_requests
           /\ rematch_requests[Key(t)].requester_id = t.user)
             => /\ Arrived(End(t, "already_waiting"))
                /\ rematch_requests' = rematch_requests
                /\ room_counter' = room_counter
                /\ active_rooms' = active_rooms
                /\ rooms' = rooms]_vars

\* the requester pressed again: still one request, of that requester, and
\* no room
RequestedTwice ==
    \E t \in Running :
        /\ t.h = "rematch" /\ t.pc = "end" /\ t.msg = "already_waiting"
        /\ Cardinality(DOMAIN rematch_requests) = 1
        /\ \A k \in DOMAIN rematch_requests : rematch_requests[k].requester_id = t.user
        /\ active_rooms = {} /\ room_counter = FIRST_COUNTER

\* the request e is A's request for the pair, game and stake of t's button
SamePairing(e, t) ==
    /\ {e.requester_id, e.opponent_id} = {t.p1, t.p2}
    /\ e.game_type = t.game_type /\ e.bet = t.bet

\* C20: after a request of A for the pair (A, B), the game k and the stake
\* s, a request of B for the same pair, in whichever order the button names
\* the two players, is taken as the acceptance; the acceptance, made while
\* A's request stands, makes exactly one new room, of creator A and opponent
\* B, game k, stake s, playing, and removes the request of the pair.
RematchPairsUp ==
    [][\A t \in Running :
          /\ (/\ t.pc = "rematch_bal" /\ Resumed(t) /\ Funded(t)
              /\ t.user \in {t.p1, t.p2})
                => \A k \in DOMAIN rematch_requests :
                      (SamePairing(rematch_requests[k], t)
                       /\ rematch_requests[k].requester_id # t.user)
                         => /\ Arrived([At(t, "rematch_accept") EXCEPT
                                          !.req = rematch_requests[k].requester_id])
                            /\ rematch_requests' = rematch_requests
          /\ (/\ t.pc = "rematch_accept" /\ Resumed(t)
              /\ Key(t) \in DOMAIN rematch_requests
              /\ rematch_requests[Key(t)].requester_id = t.req)
                => LET id == room_counter + 1
                   IN /\ room_counter' = id
                      /\ active_rooms' = active_rooms \cup {id}
                      /\ id \notin active_rooms
                      /\ rooms'[id] = [MultiplayerGame(id, t.req, t.bet, t.game_type)
                                         EXCEPT !.opponent_id = t.user,
                                                !.status = "playing"]
                      /\ Key(t) \notin DOMAIN rematch_requests'
                      /\ DOMAIN rematch_requests' = DOMAIN rematch_requests \ {Key(t)}]_vars

\* B accepted with the button that names the two players the other way
\* round: the room of creator A and opponent B is playing, the request gone
PairedAcrossButtons ==
    \E t \in Running :
        /\ t.h = "rematch" /\ t.pc = "dice_play" /\ t.p1 > t.p2
        /\ {t.req, t.user} = {t.p1, t.p2}
        /\ t.room_id \in active_rooms
        /\ rooms[t.room_id].creator_id = t.req
        /\ rooms[t.room_id].opponent_id = t.user
        /\ rooms[t.room_id].status = "playing"
        /\ DOMAIN rematch_requests = {}

\* C21: a rematch request of a requester whose balance is below the stake
\* is answered with the refusal for lack of funds and changes nothing: no
\* request is stored, a stored request of the other player stays as it
\* was, no room is created and no balance changes.
RematchNeedsFunds ==
    [][\A t \in Running :
          (t.pc = "rematch_bal" /\ Resumed(t) /\ balance[t.user] < t.bet)
             => /\ Arrived(End(t, "no_funds"))
                /\ rematch_requests' = rematch_requests
                /\ room_counter' = room_counter
                /\ active_rooms' = active_rooms
                /\ rooms' = rooms
                /\ balance' = balance
                /\ ledger' = ledger]_vars

\* the player without money pressed the button after the other player's
\* request: refused, the other player's request still stored, no room
BrokeRematchRefused ==
    \E t \in Running :
        /\ t.h = "rematch" /\ t.pc = "end" /\ t.msg = "no_funds"
        /\ Cardinality(DOMAIN rematch_requests) = 1
        /\ \A k \in DOMAIN rematch_requests :
              /\ rematch_requests[k].opponent_id = t.user
              /\ balance[t.user] < rematch_requests[k].bet
        /\ active_rooms = {} /\ room_counter = FIRST_COUNTER

\* the steps of request_rematch, from the press of the button up to the
\* start of the new room's game
RematchFlow == {"rematch_bal", "rematch_accept"}

\* C22: the rematch is free: no step of a rematch request, from the first
\* request to the start of the new room's game, changes a balance or makes
\* a ledger call, and the room that the acceptance made reaches its play()
\* with no stake debited for it, from the creator or from the opponent.
RematchDebitsNobody ==
    [][/\ \A t \in BagToSet(tasks') :
             (t.h = "rematch" /\ t.pc = "rematch_bal" /\ Arrived(t))
                => balance' = balance /\ ledger' = ledger
       /\ \A t \in Running :
             (t.h = "rematch" /\ Resumed(t) /\ t.pc \in RematchFlow)
                => balance' = balance /\ ledger' = ledger
       /\ \A t \in Running :
             (Resumed(t) /\ t.pc \in {"dice_play", "coin_play"})
                => /\ balance' = balance
                   /\ Count(t.room_id, "stake") = 0
                   /\ Count(t.room_id, "join") = 0]_vars

\* both players had their full balance when the accepted rematch was played
RematchPlayedUnpaid ==
    \E t \in Running :
        /\ t.h = "rematch" /\ t.pc \in {"dice_result", "coin_result"}
        /\ t.result.winner_id # NoneId
        /\ rooms[t.room_id].status = "finished"
        /\ balance[rooms[t.room_id].creator_id] = StartBalance
        /\ balance[rooms[t.room_id].opponent_id] = StartBalance
        /\ ledger[t.room_id] = <<>>

-----------------------------------------------------------------------------
(* Properties of the create and join flows (Spec) *)

\* C23: a stake is debited before the state it pays for can be seen: while
\* the creator's debit is still to be made the new room is not in the
\* registry, where get_room, get_waiting_rooms and join_room would find it
\* waiting, and while the opponent's debit is still to be made the room is
\* not playing.
DebitBeforeVisible ==
    \A t \in Running :
        /\ (t.h = "create" /\ t.pc = "create_debit")
              => GetRoom(Registry, t.room_id) = NoneId
        /\ (t.h = "join" /\ t.pc = "join_debit")
              => rooms[t.room_id].status # "playing"

\* the stake is a number from MIN_BET to MAX_BET
StakeInRange(bet) == bet # NaN /\ bet >= MIN_BET /\ bet <= MAX_BET

\* C24: a create attempt with a stake above the creator's balance, or
\* outside MIN_BET..MAX_BET, is answered with a refusal and leaves no trace:
\* the registry, its counter and every balance stay as they were, and no
\* create flow gets past its checks with such a stake.
CreateNeedsPayableStake ==
    [][/\ \A t \in Running :
             (t.pc = "create_bal" /\ Resumed(t) /\ FloatLt(balance[t.user], t.bet))
                => /\ Arrived(End(t, "no_funds"))
                   /\ UNCHANGED <<active_rooms, room_counter, rooms, balance, ledger>>
       /\ Arrived(Refuse(NewTask("create", NoneId, NoneId), "bad_bet"))
             => UNCHANGED <<active_rooms, room_counter, rooms, balance, ledger>>
       /\ \A t \in BagToSet(tasks') :
             (t.h = "create" /\ t.pc = "create_debit" /\ Arrived(t))
                => (StakeInRange(t.bet) /\ t.bet <= balance[t.user])]_vars

\* the creator asked for more than the balance: refused, nothing created,
\* the balance as it was
CreateUnpayableRefused ==
    \E t \in Running :
        /\ t.h = "create" /\ t.pc = "end" /\ t.msg = "no_funds"
        /\ active_rooms = {} /\ room_counter = FIRST_COUNTER
        /\ balance[t.user] = StartBalance

-----------------------------------------------------------------------------
(* Properties of the settlement (Spec) *)

Credits(r) == Count(r, "win") + Count(r, "draw_refund")

\* C27: the settlement deletes a played room only after the room's credit
\* or its two refunds and its two history records were made; a credit or a
\* refund of a result is made only for a finished room; so a room that is
\* still in the registry after its money moved is finished.
SettledBeforeDeleted ==
    [][/\ \A t \in Running :
             (t.pc = "notify" /\ Resumed(t))
                => /\ Count(t.room_id, "history") = 2
                   /\ (Count(t.room_id, "win") = 1 \/ Count(t.room_id, "draw_refund") = 2)
                   /\ t.room_id \notin active_rooms'
       /\ \A t \in Running :
             (t.pc \in {"dice_result", "coin_result", "draw_opponent"} /\ Resumed(t)
              /\ ledger' # ledger)
                => rooms[t.room_id].status = "finished"
       /\ \A r \in active_rooms' :
             Cardinality({i \in DOMAIN ledger'[r] :
                            ledger'[r][i].kind \in {"win", "draw_refund"}}) > 0
                => rooms'[r].status = "finished"]_vars

\* the prize and the two history records were made, the room is finished and
\* still in the registry: its deletion is the step to come
SettledRoomAwaitsDeletion ==
    \E t \in Running :
        /\ t.pc = "notify"
        /\ t.room_id \in active_rooms
        /\ rooms[t.room_id].status = "finished"
        /\ Count(t.room_id, "win") = 1
        /\ Count(t.room_id, "history") = 2

-----------------------------------------------------------------------------
(* Properties of join_room (Spec) *)

\* the join of t cannot succeed: the room is gone from the registry, is not
\* waiting, is t's own, or costs more than t has
JoinMustFail(t) ==
    \/ t.room_id \notin active_rooms
    \/ rooms[t.room_id].status # "waiting"
    \/ rooms[t.room_id].creator_id = t.user
    \/ balance[t.user] < rooms[t.room_id].bet

\* C30: a join attempt that fails, because the room is missing or not
\* waiting, because the joiner is the creator or has less than the stake,
\* leaves every balance and the room as they were; a join that succeeds
\* debits the room's stake from the joiner, in one ledger call, and no
\* second debit for joining that room is ever made.
JoinFailsCleanOrDebitsOnce ==
    [][/\ \A t \in Running :
             (t.pc = "join_bal" /\ Resumed(t))
                => IF JoinMustFail(t)
                   THEN /\ \E msg \in {"no_funds", "join_failed"} : Arrived(End(t, msg))
                        /\ UNCHANGED <<balance, rooms, active_rooms, ledger>>
                   ELSE /\ Arrived(At(t, "join_debit"))
                        /\ rooms'[t.room_id].opponent_id = t.user
                        /\ UNCHANGED <<balance, ledger>>
       /\ \A msg \in {"unavailable", "taken"} :
             Arrived(Refuse(NewTask("join", NoneId, NoneId), msg))
                => UNCHANGED <<balance, rooms, active_rooms, ledger>>
       /\ \A t \in Running :
             (t.pc = "join_debit" /\ Resumed(t))
                => /\ balance' = [balance EXCEPT ![t.user] = @ - rooms[t.room_id].bet]
                   /\ ledger'[t.room_id] =
                         Append(ledger[t.room_id],
                                Entry("join", t.user, 0 - rooms[t.room_id].bet))
                   /\ Count(t.room_id, "join") = 0]_vars

\* the creator tried to join the own room with the stake still in hand:
\* refused, the room waiting as before, no debit for joining
OwnRoomJoinRefused ==
    \E t \in Running :
        /\ t.h = "join" /\ t.pc = "end" /\ t.msg = "join_failed"
        /\ t.room_id \in active_rooms
        /\ rooms[t.room_id].creator_id = t.user
        /\ rooms[t.room_id].status = "waiting"
        /\ rooms[t.room_id].opponent_id = NoneId
        /\ Count(t.room_id, "join") = 0

-----------------------------------------------------------------------------
(* Properties of the bans (Spec) *)

\* C26: the ban is checked before every core operation: a banned user
\* creates no room and joins none, is debited no stake, and has no rematch
\* request stored.
BannedUserShutOut ==
    /\ \A r \in DOMAIN rooms :
          ~IsBanned(rooms[r].creator_id) /\ ~IsBanned(rooms[r].opponent_id)
    /\ \A r \in RoomIds : \A i \in DOMAIN ledger[r] :
          ledger[r][i].amount < 0 => ~IsBanned(ledger[r][i].user)
    /\ \A k \in DOMAIN rematch_requests :
          ~IsBanned(rematch_requests[k].requester_id)

-----------------------------------------------------------------------------
(* Further properties of the rematch (SpecRematch) *)

\* C31: a rematch is between the two players of the button: a press by a
\* user who is neither of them consumes no stored request and does not make
\* that user the opponent of a new room.
RematchOnlyByThePair ==
    [][\A t \in Running :
          (t.h = "rematch" /\ Resumed(t) /\ t.pc \in RematchFlow
           /\ t.user \notin {t.p1, t.p2})
             => /\ \A k \in DOMAIN rematch_requests :
                      /\ k \in DOMAIN rematch_requests'
                      /\ rematch_requests'[k] = rematch_requests[k]
                /\ \A r \in active_rooms' \ active_rooms :
                      rooms'[r].opponent_id # t.user]_vars

-----------------------------------------------------------------------------
(* Properties of the balances and the cashouts (SpecCashout) *)

\* C32: no balance is ever negative, however the checks and the debits of
\* the create, cancel and cashout flows of the users interleave.
BalanceNeverNegative == \A u \in Users : balance[u] >= 0

\* the refunds made for the cashout c
Refunds(c) ==
    LET S == {e \in BagToSet(journal) : e.kind = "cashout_refund" /\ e.ref = c}
    IN BagCardinality([e \in S |-> journal[e]])

\* C38: the amount of a cashout is returned at most once, and only while
\* the cashout is pending: a reject of a cashout that was already rejected
\* or approved credits nothing.
CashoutRefundedOnce ==
    [][/\ \A c \in DOMAIN cashouts' : Refunds(c)' <= 1
       /\ \A t \in Running :
             (t.pc = "reject_credit" /\ Resumed(t) /\ cashouts[t.req].status # "pending")
                => balance' = balance]_vars

-----------------------------------------------------------------------------
(* Properties of users.json (SpecDatabase) *)

RECURSIVE SumOf(_, _)
\* the sum of the amounts of the entries S of the bag B
SumOf(B, S) ==
    IF S = {} THEN 0
    ELSE LET e == CHOOSE x \in S : TRUE
         IN e.amount * B[e] + SumOf(B, S \ {e})

Applied(user_id) ==
    SumOf(journal, {e \in BagToSet(journal) : e.user = user_id})

\* C33: no update of the ledger is lost: when the calls of update_balance,
\* add_deposit and add_game_to_history that ran interleaved are all done,
\* the balance of every user is the initial balance plus the sum of the
\* deltas of the calls made for that user.
NoLostUpdate ==
    tasks = EmptyBag =>
       \A u \in Users : GetBalance(balance, u) = StartBalance + Applied(u)

-----------------------------------------------------------------------------
(* Properties of the money of the matches (SpecRematch) *)

RECURSIVE TotalOf(_, _)
\* the sum of the balances bal of the users S
TotalOf(bal, S) ==
    IF S = {} THEN 0
    ELSE LET u == CHOOSE x \in S : TRUE
         IN bal[u] + TotalOf(bal, S \ {u})

RECURSIVE NetOf(_)
\* credits less debits of the ledger calls made for a room
NetOf(entries) ==
    IF entries = <<>> THEN 0
    ELSE (IF Head(entries).kind = "history" THEN 0 ELSE Head(entries).amount)
            + NetOf(Tail(entries))

\* C34: the money of the matches is conserved: what is credited for a room,
\* at its settlement or by a cancel refund, never exceeds the stakes that
\* were debited for it, so no step of create, join, cancel, play,
\* settlement or rematch makes the sum of all balances grow.
MatchMoneyConserved ==
    [][/\ TotalOf(balance', Users) <= TotalOf(balance, Users)
       /\ \A r \in RoomIds : NetOf(ledger'[r]) <= 0]_vars

-----------------------------------------------------------------------------
(* Properties of the rematch and the balances (SpecRematchFunds) *)

\* C35: when a rematch room is created, its creator, who asked first, and
\* its opponent, who accepted, each hold at least the stake.
RematchPlayersFunded ==
    [][\A t \in Running :
          (t.pc = "rematch_accept" /\ Resumed(t))
             => \A r \in active_rooms' \ active_rooms :
                   /\ GetBalance(balance, rooms'[r].creator_id) >= rooms'[r].bet
                   /\ GetBalance(balance, rooms'[r].opponent_id) >= rooms'[r].bet]_vars

-----------------------------------------------------------------------------
(* Progress of the dice rooms (SpecDiceFair) *)

\* C36: a dice room that somebody joined is played and settled and leaves
\* the registry: no dice room stays in the registry with the status
\* "playing" for ever.
DiceRoomFinishes ==
    \A r \in RoomIds :
        (r \in active_rooms /\ rooms[r].game_type = "dice" /\ rooms[r].status = "playing")
           ~> (r \notin active_rooms /\ Credits(r) >= 1)

\* the joiner's handler has played, paid and deleted the room
JoinedDiceRoomGone ==
    \E t \in Running :
        /\ t.h = "join"
        /\ t.pc = "end"
        /\ t.msg = "result_shown"
        /\ t.room_id \notin active_rooms
        /\ Count(t.room_id, "join") = 1
        /\ Credits(t.room_id) >= 1

-----------------------------------------------------------------------------
(* Properties of the registry and its file (SpecPersist) *)

\* C37: the id that create_room returns is never the key of a room that
\* was in active_rooms before the call, rooms restored by load_rooms
\* included.
CreateNeverReplaces ==
    [][(ret'.op = "create" /\ ret'.ok) => ret'.result.room_id \notin active_rooms]_vars

-----------------------------------------------------------------------------
(* Properties of the deposits (SpecInvoice) *)

Deposits(invoice_id) ==
    LET S == {e \in BagToSet(journal) : e.kind = "deposit" /\ e.ref = invoice_id}
    IN BagCardinality([e \in S |-> journal[e]])

\* C39: a paid invoice is credited at most once, whatever the order of the
\* steps of the background check and of the presses of the check button:
\* add_deposit is called at most once for an invoice, for its user and its
\* amount, and the balance of a user is the initial one plus the amounts of
\* the invoices credited to them.
InvoiceCreditedOnce ==
    /\ \A i \in InvoiceIds : Deposits(i) <= 1
    /\ \A e \in BagToSet(journal) :
          /\ e.ref \in crypto_paid
          /\ e.user = active_invoices[e.ref].user_id
          /\ e.amount = active_invoices[e.ref].amount
    /\ \A u \in Users : balance[u] = StartBalance + Applied(u)

\* the background check has credited the invoice and a press of the check
\* button that was under way is answered that the payment is already
\* processed
SecondCheckCreditsNothing ==
    \E i \in InvoiceIds, t \in Running :
        /\ Deposits(i) = 1
        /\ t.h = "manual"
        /\ t.pc = "end"
        /\ t.msg = "already_processed"
        /\ \E a \in Running : a.h = "auto" /\ a.pc = "auto_notify" /\ a.req = i

====
